---- MODULE Spec2Model ----
(***************************************************************************)
(* Model of the iterative peer-review workflow of                          *)
(* run_full_review_backup.py (run_review_round, run_full_workflow, main)   *)
(* together with the feedback digests of WriterAgent and ModeratorAgent.   *)
(*                                                                         *)
(* Scores are Python floats.  A float is kept here as an exact rational    *)
(* plus its representation error: [n, d, r] stands for the IEEE-754        *)
(* double  n/d + r/(d * 2^52).  Every arithmetic step rounds to the        *)
(* nearest double (ties to even), as CPython does.                         *)
(***************************************************************************)
EXTENDS Integers, Sequences, FiniteSets, TLC

(***************************************************************************)
(* Bounds of the model.                                                    *)
(***************************************************************************)
\* largest --max-rounds value the model passes to run_full_workflow
MaxRoundsBound == 2

(***************************************************************************)
(* IEEE-754 double arithmetic on the values the workflow computes.         *)
(***************************************************************************)
\* 2^b, for the exponents of the values at hand
Pow2[b \in 0..7] == IF b = 0 THEN 1 ELSE 2 * Pow2[b - 1]

\* 2^52 mod m, as ((2^13 mod m)^2)^2 mod m
Pow2_52Mod[m \in Nat] ==
    LET a == ((8192 % m) * (8192 % m)) % m
    IN  (a * a) % m

\* exponent b of the binade [2^b, 2^(b+1)) that holds n/d + r/(d*2^52), for values >= 1
Binade[n \in Int, d \in Int, r \in Int] ==
    LET b0 == CHOOSE b \in 0..6 : d * Pow2[b] <= n /\ n < d * Pow2[b + 1]
    IN  IF n = d * Pow2[b0] /\ r < 0 THEN b0 - 1 ELSE b0

\* The doubles of the binade b are the multiples of G/(d*2^52), G = d*2^b;
\* m2 is n*2^52 + r modulo 2G: the distance to the double below and that
\* double's parity.
RoundInBinade[n \in Int, r \in Int, G \in Int] ==
    LET m2 == ((((n % (2 * G)) * Pow2_52Mod[2 * G]) % (2 * G)) + r) % (2 * G)
        m  == m2 % G
    IN  IF 2 * m < G THEN r - m
        ELSE IF 2 * m > G THEN r + (G - m)
        ELSE IF m2 < G THEN r - m ELSE r + (G - m)

\* the error term of the double nearest to n/d + r/(d*2^52), ties to even
RoundToDouble[n \in Int, d \in Int, r \in Int] == RoundInBinade[n, r, d * Pow2[Binade[n, d, r]]]

\* a double: the value n/d + r/(d*2^52)
Double == [n : Int, d : Int, r : Int]

\* the double nearest to the rational n/d (int / int true division, float("8.0"))
Dbl[n \in Int, d \in Int] == [n |-> n, d |-> d, r |-> RoundToDouble[n, d, 0]]

\* x + y on doubles of the same denominator
DblAdd[x \in Double, y \in Double] ==
    [n |-> x.n + y.n, d |-> x.d, r |-> RoundToDouble[x.n + y.n, x.d, x.r + y.r]]

\* x / k for an int k
DblDivInt[x \in Double, k \in Int] ==
    [n |-> x.n, d |-> x.d * k, r |-> RoundToDouble[x.n, x.d * k, x.r]]

\* x >= y on doubles
DblGE[x \in Double, y \in Double] ==
    LET c == x.n * y.d - y.n * x.d
    IN  IF c # 0 THEN c > 0 ELSE x.r * y.d >= y.r * x.d

\* Python round(x, 1): the double nearest to x rounded to one decimal
Round1[x \in Double] ==
    LET k0  == (10 * x.n) \div x.d
        rem == (10 * x.n) % x.d
        up  == \/ 2 * rem > x.d
               \/ 2 * rem = x.d /\ (x.r > 0 \/ (x.r = 0 /\ k0 % 2 = 1))
    IN  Dbl[IF up THEN k0 + 1 ELSE k0, 10]

(***************************************************************************)
(* The panel: SPECIALISTS, the review a specialist's response yields.      *)
(***************************************************************************)
\* SPECIALISTS.keys(), in declaration (submission) order
SpecialistOrder == <<"cryptography", "economics", "distributed_systems">>
Specialists == {SpecialistOrder[i] : i \in 1..Len(SpecialistOrder)}

SpecialistName ==
    [s \in Specialists |->
        CASE s = "cryptography" -> "Cryptography Expert"
          [] s = "economics" -> "Economics Expert"
          [] s = "distributed_systems" -> "Distributed Systems Expert"]

\* the criteria of the review prompt's "scores" object
Criteria == <<"accuracy", "completeness", "clarity", "novelty", "rigor">>

Scores(a, b, c, d, e) ==
    [k \in {Criteria[i] : i \in 1..Len(Criteria)} |->
        CASE k = "accuracy" -> a [] k = "completeness" -> b [] k = "clarity" -> c
          [] k = "novelty" -> d [] k = "rigor" -> e]

\* The JSON records a reviewer model answers with.  "body" stands for the
\* summary, strengths, weaknesses, suggestions and detailed_feedback strings,
\* which generate_review copies unchanged.
Fair   == [scores |-> Scores(7, 7, 7, 7, 8),  body |-> "fair",   tokens |-> <<1200>>]
Good   == [scores |-> Scores(8, 8, 8, 7, 7),  body |-> "good",   tokens |-> <<1200>>]
Strong == [scores |-> Scores(9, 9, 9, 9, 10), body |-> "strong", tokens |-> <<1200>>]
\* an answer of a provider that reported no token counts: total_tokens is None
Uncounted == [scores |-> Scores(9, 9, 9, 9, 10), body |-> "uncounted", tokens |-> <<>>]
\* an answer with a score above the scale of the prompt
Inflated == [scores |-> Scores(10, 10, 10, 10, 11), body |-> "inflated", tokens |-> <<1200>>]

Answers(c, e, d) ==
    [s \in Specialists |->
        CASE s = "cryptography" -> c [] s = "economics" -> e [] s = "distributed_systems" -> d]

\* What the three reviewer models answer in one round: averages 7.2/7.2/7.2,
\* 7.6/9.2/7.2 (mean exactly 8.0), 7.6/7.6/9.2, 9.2/9.2/9.2 (twice) and 10.2/9.2/9.2.
PanelAnswers ==
    { Answers(Fair, Fair, Fair), Answers(Good, Strong, Fair),
      Answers(Good, Good, Strong), Answers(Strong, Strong, Strong),
      Answers(Inflated, Strong, Strong), Answers(Strong, Uncounted, Strong) }

RECURSIVE SumSeq(_, _)
\* sum(f[k] for k in keys), keys a sequence
SumSeq(f, keys) == IF keys = <<>> THEN 0 ELSE f[Head(keys)] + SumSeq(f, Tail(keys))

\* generate_review, after the model's answer parsed: the review dict
MakeReview(specialist_id, resp) ==
    [ specialist      |-> specialist_id,
      specialist_name |-> SpecialistName[specialist_id],
      scores          |-> resp.scores,
      average         |-> Round1[Dbl[SumSeq(resp.scores, Criteria), Len(Criteria)]],
      body            |-> resp.body,
      tokens          |-> resp.tokens ]

\* the answer a review was built from
ResponseOf(review) == [scores |-> review.scores, body |-> review.body, tokens |-> review.tokens]

RECURSIVE SumAverages(_)
\* sum(r["average"] for r in reviews): left to right, starting from the int 0
SumAverages(rs) ==
    IF Len(rs) = 1 THEN rs[1].average
    ELSE DblAdd[SumAverages(SubSeq(rs, 1, Len(rs) - 1)), rs[Len(rs)].average]

\* the sum of the averages divided by the number of criteria
OverallAverage_OverCriteria(rs) == DblDivInt[SumAverages(rs), Len(Criteria)]

\* overall_average = sum(r["average"] for r in reviews) / len(reviews)
OverallAverage(rs) == DblDivInt[SumAverages(rs), Len(rs)]

\* the mean of the per-review averages as a rational n/d, without float rounding
ExactMean(rs) ==
    LET RECURSIVE Tenths(_)
        Tenths(q) == IF q = <<>> THEN 0 ELSE Head(q).average.n + Tenths(Tail(q))
    IN  [n |-> Tenths(rs), d |-> 10 * Len(rs)]

(***************************************************************************)
(* The digests built from a review list.  A text is the sequence of its    *)
(* pieces; the separator "---" joins the per-review parts.                 *)
(***************************************************************************)
RECURSIVE JoinParts(_)
\* "\n---\n".join(parts)
JoinParts(parts) ==
    IF parts = <<>> THEN <<>>
    ELSE IF Len(parts) = 1 THEN parts[1]
    ELSE parts[1] \o <<"---">> \o JoinParts(Tail(parts))

ScoreLines(review) == [i \in 1..Len(Criteria) |-> review.scores[Criteria[i]]]

\* WriterAgent._consolidate_feedback
ConsolidateFeedback(rs) ==
    JoinParts([i \in 1..Len(rs) |->
        <<"##", rs[i].specialist_name, rs[i].average.n>> \o ScoreLines(rs[i]) \o <<rs[i].body>>])

\* ModeratorAgent._format_reviews
FormatReviews(rs) ==
    JoinParts([i \in 1..Len(rs) |->
        <<"REVIEWER", i, rs[i].specialist_name, rs[i].average.n>> \o ScoreLines(rs[i]) \o <<rs[i].body>>])

(***************************************************************************)
(* Inputs of a run.                                                        *)
(***************************************************************************)
\* manuscript_path.read_text()
InitialManuscript == "draft"
\* the texts the writer model may answer a revise call with ("" is an empty answer)
RevisionTexts == {"", "revision A", "revision B"}
\* len(text.split())
WordCount(text) ==
    CASE text = "" -> 0
      [] text = "draft" -> 1
      [] OTHER -> 2
\* --threshold values (default 8.0)
ThresholdChoices == {Dbl[72, 10], Dbl[80, 10]}
\* the ways a reviewer call can fail: the transport raises, or json.loads / a key lookup raises
FailureKinds == {"transport", "unparseable"}

(***************************************************************************)
(* State of the components run_full_workflow does not drive: the moderator *)
(* agent (agents/moderator.py) and the role configuration (model_config.py)*)
(***************************************************************************)
VARIABLES
    moderator,           \* one make_decision call: where it stands, its arguments and outcome
    config_data,         \* model_config._config_data: <<>> for None, else <<the cached dict>>
    config_store,        \* config/models.json: <<>> when the file is absent, else <<its content>>
    environ,             \* os.environ: the names of the variables that are set (non-empty)
    store_reads,         \* opens of config/models.json since the last reload_config began
    last_call,           \* the last call into model_config and what it did
    llm,                 \* an OpenAILLM client: its generate call and the completions it returned
    extraction,          \* one reviewer answer and what the parsers made of it
    tracker,             \* a PerformanceTracker: its attributes and the RoundMetrics it made
    exported,            \* the PerformanceMetrics values export_metrics has returned
    history              \* the start_round and end_round calls made so far, the last exception

resolverVars == <<config_data, config_store, environ, store_reads, last_call>>

trackerVars == <<tracker, exported, history>>

componentVars == <<moderator, resolverVars, llm, extraction, trackerVars>>

\* no make_decision call is running
ModeratorIdle == [pc |-> "idle"]
\* no call into model_config was made
NoCall == [op |-> "none"]
\* a client that was never called
LlmIdle == [pc |-> "idle", completions |-> {}]
\* no answer was parsed
NoExtraction == [pc |-> "idle"]
\* PerformanceTracker.__init__ (performance.py, lines 86-95). RoundMetrics objects live
\* in "objects" and are referred to by their index; _current_round is <<>> for None,
\* else <<the index>>; _rounds is the one list object the tracker ever creates.
NewTracker ==
    [ timers |-> {}, workflow_start |-> <<>>, current_round |-> <<>>, rounds |-> <<>>,
      initial_draft_time |-> 0, initial_draft_tokens |-> 0,
      team_composition_time |-> 0, team_composition_tokens |-> 0,
      objects |-> <<>> ]
\* nothing was asked of the tracker yet
NoHistory ==
    [calls |-> 0, last |-> "", starts |-> <<>>, ends |-> 0, unmatched |-> FALSE, raised |-> ""]

\* module import of model_config (line 24) and no ModeratorAgent in use
ComponentsAtRest ==
    /\ moderator = ModeratorIdle
    /\ config_data = <<>>
    /\ config_store = <<>>
    /\ environ = {}
    /\ store_reads = 0
    /\ last_call = NoCall
    /\ llm = LlmIdle
    /\ extraction = NoExtraction
    /\ tracker = NewTracker
    /\ exported = <<>>
    /\ history = NoHistory

(***************************************************************************)
(* State of a run of main -> run_full_workflow.                            *)
(***************************************************************************)
VARIABLES
    max_rounds,          \* argument max_rounds
    threshold,           \* argument threshold (a double)
    pc,                  \* where run_full_workflow stands
    round_num,           \* loop variable of the review loop (0 before the first round)
    current_manuscript,  \* current_manuscript
    all_rounds,          \* all_rounds
    reviews,             \* run_review_round's list reviews (kept as the round's reviews)
    pending,             \* reviewer calls of the current panel that have not resolved
    hung,                \* reviewer calls of the current panel that will never resolve
    overall_average,     \* <<overall_average>> once run_review_round returned, else <<>>
    files,               \* the files under output_dir: name -> content
    writer_prompt,       \* <<what the last revise call sent to the writer model>>, else <<>>
    status,              \* the last status banner printed by the loop
    total_tokens,        \* <<total_tokens>> of the cost estimate, else <<>>
    error                \* the exception main caught ("" while none)

workflowVars ==
    <<max_rounds, threshold, pc, round_num, current_manuscript, all_rounds, reviews,
      pending, hung, overall_average, files, writer_prompt, status, total_tokens, error>>

vars == <<workflowVars, componentVars>>

\* path.write_text(content) / json.dump(content, open(path, "w"))
WriteFile(fs, name, content) == (name :> content) @@ fs

\* run_full_workflow, setup (lines 250-273), entered from main
Init ==
    /\ max_rounds \in (-1)..MaxRoundsBound
    /\ threshold \in ThresholdChoices
    /\ pc = "loop"
    /\ round_num = 0
    /\ current_manuscript = InitialManuscript
    /\ all_rounds = <<>>
    /\ reviews = <<>>
    /\ pending = {}
    /\ hung = {}
    /\ overall_average = <<>>
    /\ files = (<<"manuscript_v", 1>> :> InitialManuscript)
    /\ writer_prompt = <<>>
    /\ status = "none"
    /\ total_tokens = <<>>
    /\ error = ""
    /\ ComponentsAtRest

\* for round_num in range(1, max_rounds + 1): the next round dispatches its panel
\* (run_review_round creates one generate_review call per specialist); an
\* empty range falls through to the summary
LoopHead ==
    /\ pc = "loop"
    /\ IF round_num < max_rounds
       THEN /\ round_num' = round_num + 1
            /\ pending' = Specialists
            /\ pc' = "panel"
       ELSE /\ pc' = "summary"
            /\ UNCHANGED <<round_num, pending>>
    /\ hung' = {}
    /\ reviews' = <<>>
    /\ overall_average' = <<>>
    /\ UNCHANGED <<componentVars, max_rounds, threshold, current_manuscript, all_rounds, files,
                   writer_prompt, status, total_tokens, error>>

\* a collection step that keeps the latest review only
CollectReview_KeepsLast(rs, review) == <<review>>

\* reviews.append(review) in the as_completed loop
CollectReview(rs, review) == Append(rs, review)

\* a panel that returns as soon as the first review is in, the other calls
\* still in flight
ReviewCompletes_ReturnsEarly(s, resp) ==
    /\ pc = "panel"
    /\ s \in pending
    /\ \E a \in PanelAnswers :
          /\ a[s] = resp
          /\ \A i \in 1..Len(reviews) : a[reviews[i].specialist] = ResponseOf(reviews[i])
    /\ \E rs \in {CollectReview(reviews, MakeReview(s, resp))} :
          /\ reviews' = rs
          /\ overall_average' = <<OverallAverage(rs)>>
          /\ pc' = "seal"
    /\ pending' = pending \ {s}
    /\ UNCHANGED <<componentVars, max_rounds, threshold, round_num, current_manuscript, all_rounds, hung,
                   files, writer_prompt, status, total_tokens, error>>

\* One reviewer call returns a parseable answer: generate_review builds the review,
\* the as_completed loop appends it; after the last one run_review_round computes
\* overall_average and returns.
ReviewCompletes(s, resp) ==
    /\ pc = "panel"
    /\ s \in pending
    /\ \E a \in PanelAnswers :
          /\ a[s] = resp
          /\ \A i \in 1..Len(reviews) : a[reviews[i].specialist] = ResponseOf(reviews[i])
    /\ \E rs \in {CollectReview(reviews, MakeReview(s, resp))} :
          /\ reviews' = rs
          /\ IF pending \ {s} = {} /\ hung = {}
             THEN /\ overall_average' = <<OverallAverage(rs)>>
                  /\ pc' = "seal"
             ELSE UNCHANGED <<overall_average, pc>>
    /\ pending' = pending \ {s}
    /\ UNCHANGED <<componentVars, max_rounds, threshold, round_num, current_manuscript, all_rounds, hung,
                   files, writer_prompt, status, total_tokens, error>>

\* a panel that drops the failed call and carries on with the other reviews
ReviewFails_Skipped(s, kind) ==
    /\ pc = "panel"
    /\ s \in pending
    /\ error' = kind
    /\ pending' = pending \ {s}
    /\ IF pending \ {s} = {} /\ hung = {} /\ reviews # <<>>
       THEN /\ overall_average' = <<OverallAverage(reviews)>>
            /\ pc' = "seal"
       ELSE UNCHANGED <<overall_average, pc>>
    /\ UNCHANGED <<componentVars, max_rounds, threshold, round_num, current_manuscript, all_rounds, reviews,
                   hung, files, writer_prompt, status, total_tokens>>

\* One reviewer call raises: "await review_result" re-raises in run_review_round,
\* nothing catches it before main, which prints the error and returns 1.
ReviewFails(s, kind) ==
    /\ pc = "panel"
    /\ s \in pending
    /\ pc' = "aborted"
    /\ error' = kind
    /\ pending' = {}
    /\ hung' = {}
    /\ UNCHANGED <<componentVars, max_rounds, threshold, round_num, current_manuscript, all_rounds, reviews,
                   overall_average, files, writer_prompt, status, total_tokens>>

\* One reviewer call never resolves (the provider keeps the connection open).
\* run_review_round sets no timeout on the calls.
ReviewHangs(s) ==
    /\ pc = "panel"
    /\ s \in pending
    /\ pending' = pending \ {s}
    /\ hung' = hung \cup {s}
    /\ UNCHANGED <<componentVars, max_rounds, threshold, pc, round_num, current_manuscript, all_rounds,
                   reviews, overall_average, files, writer_prompt, status, total_tokens, error>>

\* round_data of lines 283-292 (the timestamp is left out)
RoundData ==
    [ round              |-> round_num,
      manuscript_version |-> round_num,
      word_count         |-> WordCount(current_manuscript),
      reviews            |-> reviews,
      overall_average    |-> Round1[overall_average[1]],
      threshold          |-> threshold,
      passed             |-> DblGE[overall_average[1], threshold] ]

\* a seal step that keeps one record only, replacing the one of the round before
SealRound_Overwrites ==
    /\ pc = "seal"
    /\ files' = WriteFile(files, <<"round", round_num>>, RoundData)
    /\ all_rounds' = <<RoundData>>
    /\ pc' = "branch"
    /\ UNCHANGED <<componentVars, max_rounds, threshold, round_num, current_manuscript, reviews, pending,
                   hung, overall_average, writer_prompt, status, total_tokens, error>>

\* lines 282-299: write round_<n>.json and append the record to all_rounds
SealRound ==
    /\ pc = "seal"
    /\ files' = WriteFile(files, <<"round", round_num>>, RoundData)
    /\ all_rounds' = Append(all_rounds, RoundData)
    /\ pc' = "branch"
    /\ UNCHANGED <<componentVars, max_rounds, threshold, round_num, current_manuscript, reviews, pending,
                   hung, overall_average, writer_prompt, status, total_tokens, error>>

\* line 302: if overall_average >= threshold
Passes(avg, thr) == DblGE[avg, thr]
\* a budget test that allows one round more
MaxRoundsReached_Late(r, m) == r > m
\* line 313: if round_num >= max_rounds
MaxRoundsReached(r, m) == r >= m

\* a branch that follows a categorical label (no reviewer found the work only
\* fair) instead of the numeric comparison
Branch_ByLabel ==
    /\ pc = "branch"
    /\ IF \A i \in 1..Len(reviews) : reviews[i].body # "fair"
       THEN /\ status' = "PASSED"
            /\ files' = WriteFile(files, <<"manuscript_final", 0>>, current_manuscript)
            /\ pc' = "summary"
            /\ UNCHANGED writer_prompt
       ELSE IF MaxRoundsReached(round_num, max_rounds)
       THEN /\ status' = "MAX_ROUNDS_REACHED"
            /\ files' = WriteFile(files, <<"manuscript_final_v", round_num>>, current_manuscript)
            /\ pc' = "summary"
            /\ UNCHANGED writer_prompt
       ELSE /\ status' = "REVISION_NEEDED"
            /\ writer_prompt' = << [ manuscript |-> current_manuscript,
                                     feedback   |-> ConsolidateFeedback(reviews),
                                     round      |-> round_num ] >>
            /\ pc' = "revising"
            /\ UNCHANGED files
    /\ UNCHANGED <<componentVars, max_rounds, threshold, round_num, current_manuscript, all_rounds, reviews,
                   pending, hung, overall_average, total_tokens, error>>

\* lines 301-338: the pass / max-rounds / revise branch; the revise branch
\* consolidates the feedback and awaits the writer model
Branch ==
    /\ pc = "branch"
    /\ IF Passes(overall_average[1], threshold)
       THEN /\ status' = "PASSED"
            /\ files' = WriteFile(files, <<"manuscript_final", 0>>, current_manuscript)
            /\ pc' = "summary"
            /\ UNCHANGED writer_prompt
       ELSE IF MaxRoundsReached(round_num, max_rounds)
       THEN /\ status' = "MAX_ROUNDS_REACHED"
            /\ files' = WriteFile(files, <<"manuscript_final_v", round_num>>, current_manuscript)
            /\ pc' = "summary"
            /\ UNCHANGED writer_prompt
       ELSE /\ status' = "REVISION_NEEDED"
            /\ writer_prompt' = << [ manuscript |-> current_manuscript,
                                     feedback   |-> ConsolidateFeedback(reviews),
                                     round      |-> round_num ] >>
            /\ pc' = "revising"
            /\ UNCHANGED files
    /\ UNCHANGED <<componentVars, max_rounds, threshold, round_num, current_manuscript, all_rounds, reviews,
                   pending, hung, overall_average, total_tokens, error>>

\* a revision that is saved but not made the current manuscript
ReviseReturns_KeepsManuscript(text) ==
    /\ pc = "revising"
    /\ files' = WriteFile(files, <<"manuscript_v", round_num + 1>>, text)
    /\ pc' = "loop"
    /\ UNCHANGED <<componentVars, max_rounds, threshold, round_num, current_manuscript, all_rounds, reviews,
                   pending, hung, overall_average, writer_prompt, status, total_tokens, error>>

\* lines 339-351: the writer model answered; save manuscript_v<n+1>.md and
\* make the answer the current manuscript
ReviseReturns(text) ==
    /\ pc = "revising"
    /\ files' = WriteFile(files, <<"manuscript_v", round_num + 1>>, text)
    /\ current_manuscript' = text
    /\ pc' = "loop"
    /\ UNCHANGED <<componentVars, max_rounds, threshold, round_num, all_rounds, reviews, pending, hung,
                   overall_average, writer_prompt, status, total_tokens, error>>

\* the writer call raises: nothing catches it before main
ReviseFails ==
    /\ pc = "revising"
    /\ pc' = "aborted"
    /\ error' = "writer call failed"
    /\ UNCHANGED <<componentVars, max_rounds, threshold, round_num, current_manuscript, all_rounds, reviews,
                   pending, hung, overall_average, files, writer_prompt, status, total_tokens>>

\* workflow_data of lines 376-387 (topic, paths and timestamp are left out)
WorkflowData ==
    [ max_rounds   |-> max_rounds,
      threshold    |-> threshold,
      rounds       |-> all_rounds,
      final_score  |-> all_rounds[Len(all_rounds)].overall_average,
      passed       |-> all_rounds[Len(all_rounds)].passed,
      total_rounds |-> Len(all_rounds) ]

\* lines 353-393: summary table, then workflow_complete.json;
\* all_rounds[-1] raises IndexError on an empty list
Finalize ==
    /\ pc = "summary"
    /\ IF all_rounds = <<>>
       THEN /\ pc' = "aborted"
            /\ error' = "IndexError"
            /\ UNCHANGED files
       ELSE /\ files' = WriteFile(files, <<"workflow_complete", 0>>, WorkflowData)
            /\ pc' = "cost"
            /\ UNCHANGED error
    /\ UNCHANGED <<componentVars, max_rounds, threshold, round_num, current_manuscript, all_rounds, reviews,
                   pending, hung, overall_average, writer_prompt, status, total_tokens>>

\* every review of every round carries a token count (none is None)
TokensCounted(rds) ==
    \A r \in 1..Len(rds) : \A i \in 1..Len(rds[r].reviews) : rds[r].reviews[i].tokens # <<>>

RECURSIVE SumTokens(_)
SumTokens(rs) == IF rs = <<>> THEN 0 ELSE Head(rs).tokens[1] + SumTokens(Tail(rs))
RECURSIVE SumRoundTokens(_)
SumRoundTokens(rds) ==
    IF rds = <<>> THEN 0 ELSE SumTokens(Head(rds).reviews) + SumRoundTokens(Tail(rds))

\* lines 395-416: cost estimate; r.get("tokens", 0) is None for a review whose
\* "tokens" is None and sum raises TypeError, which main catches to return 1;
\* otherwise the web export's failure is caught and main returns 0
CostEstimate ==
    /\ pc = "cost"
    /\ IF TokensCounted(all_rounds)
       THEN /\ total_tokens' = <<SumRoundTokens(all_rounds)>>
            /\ pc' = "done"
            /\ UNCHANGED error
       ELSE /\ pc' = "aborted"
            /\ error' = "TypeError"
            /\ UNCHANGED total_tokens
    /\ UNCHANGED <<componentVars, max_rounds, threshold, round_num, current_manuscript, all_rounds, reviews,
                   pending, hung, overall_average, files, writer_prompt, status>>

Next ==
    \/ LoopHead
    \/ \E s \in Specialists, resp \in {Fair, Good, Strong, Inflated, Uncounted} : ReviewCompletes(s, resp)
    \/ \E s \in Specialists, kind \in FailureKinds : ReviewFails(s, kind)
    \/ \E s \in Specialists : ReviewHangs(s)
    \/ SealRound
    \/ Branch
    \/ \E text \in RevisionTexts : ReviseReturns(text)
    \/ ReviseFails
    \/ Finalize
    \/ CostEstimate

Spec == Init /\ [][Next]_vars

\* The event loop runs every continuation that is ready, and a model call that
\* is not hung resolves: a run does not stop while a step is possible.
FairSpec == Init /\ [][Next]_vars /\ WF_vars(Next)

(***************************************************************************)
(* ModeratorAgent.make_decision (agents/moderator.py), called on its own:  *)
(* run_full_workflow never calls it.                                       *)
(***************************************************************************)
\* the workflow variables while main is not running
WorkflowNotStarted ==
    /\ max_rounds = MaxRoundsBound
    /\ threshold = Dbl[80, 10]
    /\ pc = "loop"
    /\ round_num = 0
    /\ current_manuscript = InitialManuscript
    /\ all_rounds = <<>>
    /\ reviews = <<>>
    /\ pending = {}
    /\ hung = {}
    /\ overall_average = <<>>
    /\ files = (<<"manuscript_v", 1>> :> InitialManuscript)
    /\ writer_prompt = <<>>
    /\ status = "none"
    /\ total_tokens = <<>>
    /\ error = ""

\* the "decision" values the prompt asks for
DecisionLabels == {"ACCEPT", "MINOR_REVISION", "MAJOR_REVISION", "REJECT"}

\* response.content as a sequence of lexical pieces: whitespace, a ``` fence, the
\* word json, prose, or the text of one JSON value
Piece(t, kind, decision) == [t |-> t, kind |-> kind, decision |-> decision]
WS == Piece("ws", "", "")
Fence == Piece("fence", "", "")
JsonWord == Piece("json", "", "")
Prose == Piece("prose", "", "")
\* a JSON object with a "decision" member ("" : the member is missing)
JsonObject(label) == Piece("value", "object", label)
\* a JSON value that is not an object: an array, or a bare string naming a label
JsonArray == Piece("value", "array", "")
JsonString(label) == Piece("value", "string", label)

JsonValues ==
    {JsonObject(l) : l \in DecisionLabels \cup {""}} \cup {JsonArray, JsonString("ACCEPT")}

\* the answers the moderator model may give
ModeratorResponses ==
    { lead \o open \o body \o close \o trail :
        lead  \in {<<>>, <<WS>>},
        open  \in {<<>>, <<Fence, JsonWord, WS>>, <<Fence, WS>>},
        body  \in {<<>>, <<Prose>>} \cup {<<v>> : v \in JsonValues}
                    \cup {<<Prose, WS, JsonObject("ACCEPT")>>, <<JsonObject("REJECT"), WS, Prose>>},
        close \in {<<>>, <<WS, Fence>>},
        trail \in {<<>>, <<WS>>} }

\* str.strip()
Strip(s) ==
    LET inked == {i \in 1..Len(s) : s[i] # WS}
    IN  IF inked = {} THEN <<>>
        ELSE SubSeq(s, CHOOSE i \in inked : \A j \in inked : i <= j,
                       CHOOSE i \in inked : \A j \in inked : i >= j)
\* str.startswith / str.endswith
StartsWith(s, prefix) == Len(s) >= Len(prefix) /\ SubSeq(s, 1, Len(prefix)) = prefix
EndsWith(s, suffix) ==
    Len(s) >= Len(suffix) /\ SubSeq(s, Len(s) - Len(suffix) + 1, Len(s)) = suffix

\* lines 113-120: strip, drop a leading ```json, a leading ```, a trailing ```, strip
CleanContent(content) ==
    LET c0 == Strip(content)
        c1 == IF StartsWith(c0, <<Fence, JsonWord>>) THEN SubSeq(c0, 3, Len(c0)) ELSE c0
        c2 == IF StartsWith(c1, <<Fence>>) THEN SubSeq(c1, 2, Len(c1)) ELSE c1
        c3 == IF EndsWith(c2, <<Fence>>) THEN SubSeq(c2, 1, Len(c2) - 1) ELSE c2
    IN  Strip(c3)

\* a parser that salvages the first JSON value found anywhere in the text
JsonLoads_Salvaging(text) ==
    LET vals == {i \in 1..Len(text) : text[i].t = "value"}
    IN  IF vals = {} THEN <<>> ELSE <<text[CHOOSE i \in vals : \A j \in vals : i <= j]>>

\* json.loads: <<the value>> when the text is one JSON value, <<>> for JSONDecodeError
JsonLoads(text) ==
    IF Len(text) = 1 /\ text[1].t = "value" THEN <<text[1]>> ELSE <<>>

\* the review lists make_decision may be given: a full panel, or no review
ModeratorReviewLists ==
    {<<>>} \cup { [i \in 1..Len(SpecialistOrder) |->
                     MakeReview(SpecialistOrder[i], a[SpecialistOrder[i]])] : a \in PanelAnswers }

\* lines 64-104: the digest and the average are computed, the model is called
MakeDecisionCalled(rs, r, m) ==
    /\ moderator = ModeratorIdle
    /\ moderator' =
          IF rs = <<>>
          THEN [pc |-> "raised", error |-> "ZeroDivisionError", round |-> r, max_rounds |-> m]
          ELSE [pc |-> "awaiting", round |-> r, max_rounds |-> m,
                reviews_summary |-> FormatReviews(rs), overall_avg |-> OverallAverage(rs)]
    /\ UNCHANGED <<workflowVars, resolverVars, llm, extraction, trackerVars>>

\* lines 111-137: the model answered; clean, parse, add the metadata, return
MakeDecisionReturns(content) ==
    /\ moderator.pc = "awaiting"
    /\ \E parsed \in {JsonLoads(CleanContent(content))} :
          moderator' =
             IF parsed = <<>>
             THEN [pc |-> "raised", error |-> "ValueError", content |-> content]
             ELSE IF parsed[1].kind # "object"
             THEN [pc |-> "raised", error |-> "TypeError", content |-> content]
             ELSE [pc |-> "returned", content |-> content,
                   result |-> [decision        |-> parsed[1].decision,
                               round           |-> moderator.round,
                               overall_average |-> Round1[moderator.overall_avg],
                               tokens          |-> 950]]
    /\ UNCHANGED <<workflowVars, resolverVars, llm, extraction, trackerVars>>

\* line 104: the call to the model raises
MakeDecisionCallFails ==
    /\ moderator.pc = "awaiting"
    /\ moderator' = [pc |-> "raised", error |-> "transport"]
    /\ UNCHANGED <<workflowVars, resolverVars, llm, extraction, trackerVars>>

ModeratorInit ==
    /\ WorkflowNotStarted
    /\ ComponentsAtRest

ModeratorNext ==
    \/ \E rs \in ModeratorReviewLists, m \in 1..MaxRoundsBound, r \in 1..MaxRoundsBound :
          r <= m /\ MakeDecisionCalled(rs, r, m)
    \/ \E content \in ModeratorResponses : MakeDecisionReturns(content)
    \/ MakeDecisionCallFails

ModeratorSpec == ModeratorInit /\ [][ModeratorNext]_vars

(***************************************************************************)
(* Role configuration and client construction (research_cli/model_config). *)
(***************************************************************************)
\* ModelSpec
ModelSpec(model, provider) == [model |-> model, provider |-> provider]
RoleData(primary, fallback) == [primary |-> primary, fallback |-> fallback]

\* "provider_config" of config/models.json ("" : the key is not given)
ProviderConfig ==
    [ anthropic |-> [env_key |-> "ANTHROPIC_API_KEY", env_key_alt |-> "ANTHROPIC_AUTH_TOKEN",
                     env_base_url |-> "ANTHROPIC_BASE_URL"],
      openai    |-> [env_key |-> "OPENAI_API_KEY", env_key_alt |-> "", env_base_url |-> ""],
      google    |-> [env_key |-> "GOOGLE_API_KEY", env_key_alt |-> "", env_base_url |-> ""] ]
\* provider_cfg of a provider the file does not list: {}
EmptyProviderConfig == [env_key |-> "", env_key_alt |-> "", env_base_url |-> ""]

\* two contents of config/models.json
ConfigA ==
    [ roles |->
        [ writer          |-> RoleData(ModelSpec("gemini-pro", "google"),
                                       <<ModelSpec("gpt-4", "openai"),
                                         ModelSpec("claude-sonnet", "anthropic")>>),
          moderator       |-> RoleData(ModelSpec("mistral-large", "mistral"),
                                       <<ModelSpec("claude-opus", "anthropic"),
                                         ModelSpec("gpt-4", "openai")>>),
          reviewer        |-> RoleData(ModelSpec("gpt-4", "openai"),
                                       <<ModelSpec("claude-sonnet", "anthropic")>>),
          title_generator |-> RoleData(ModelSpec("claude-haiku", "anthropic"), <<>>) ],
      provider_config |-> ProviderConfig ]
ConfigB ==
    [ roles |->
        [ writer   |-> RoleData(ModelSpec("claude-opus", "anthropic"),
                                <<ModelSpec("gemini-pro", "google")>>),
          reviewer |-> RoleData(ModelSpec("claude-sonnet", "anthropic"),
                                <<ModelSpec("claude-haiku", "anthropic")>>) ],
      provider_config |-> ProviderConfig ]
\* a deployment whose OpenAI entry names an alternate key variable (line 107)
ProviderConfigAlt ==
    [ProviderConfig EXCEPT !.openai = [env_key |-> "OPENAI_API_KEY",
                                       env_key_alt |-> "OPENAI_AUTH_TOKEN",
                                       env_base_url |-> ""]]
ConfigC ==
    [ roles |->
        [ reviewer |-> RoleData(ModelSpec("gpt-4", "openai"),
                                <<ModelSpec("claude-sonnet", "anthropic")>>) ],
      provider_config |-> ProviderConfigAlt ]
StoreContents == {ConfigA, ConfigB, ConfigC}

\* the role names callers ask for
RoleNames == {"writer", "moderator", "reviewer", "title_generator", "desk_editor"}
\* the environment variables a deployment may set
EnvNames == {"ANTHROPIC_API_KEY", "ANTHROPIC_BASE_URL", "OPENAI_API_KEY", "OPENAI_AUTH_TOKEN",
             "GOOGLE_API_KEY"}

\* os.environ.get(name, "") when name is given, "" otherwise
EnvGet(env, name) == IF name # "" /\ name \in env THEN name ELSE ""

\* config.get("provider_config", {}).get(provider, {})
ProviderCfg(cfg, provider) ==
    IF provider \in DOMAIN cfg.provider_config
    THEN cfg.provider_config[provider] ELSE EmptyProviderConfig

\* the Anthropic key an OpenAI client may reuse (lines 113-116)
AnthropicKey(cfg, env) ==
    LET a == ProviderCfg(cfg, "anthropic")
    IN  IF EnvGet(env, a.env_key) # "" THEN EnvGet(env, a.env_key) ELSE EnvGet(env, a.env_key_alt)

\* lines 102-109: the provider's own key, primary variable first, then the alternate
OwnKey(cfg, env, provider) ==
    LET pcfg == ProviderCfg(cfg, provider)
    IN  IF EnvGet(env, pcfg.env_key) # "" THEN EnvGet(env, pcfg.env_key)
        ELSE EnvGet(env, pcfg.env_key_alt)

\* _get_api_key: the variable the key is taken from, "" where it raises ValueError
GetApiKey(cfg, env, provider) ==
    LET pcfg == ProviderCfg(cfg, provider)
        k1   == EnvGet(env, pcfg.env_key)
        k2   == IF k1 # "" THEN k1 ELSE EnvGet(env, pcfg.env_key_alt)
        base == EnvGet(env, ProviderCfg(cfg, "anthropic").env_base_url)
    IN  IF k2 = "" /\ provider = "openai" /\ AnthropicKey(cfg, env) # "" /\ base # ""
        THEN AnthropicKey(cfg, env) ELSE k2

\* _get_base_url: the variable the URL is taken from, "" for None
GetBaseUrl(cfg, env, provider) ==
    LET b1   == EnvGet(env, ProviderCfg(cfg, provider).env_base_url)
        base == EnvGet(env, ProviderCfg(cfg, "anthropic").env_base_url)
    IN  IF /\ b1 = "" /\ provider = "openai" /\ AnthropicKey(cfg, env) # "" /\ base # ""
           /\ EnvGet(env, "OPENAI_API_KEY") = ""
        THEN base ELSE b1

\* the outcome of a construction: a client, or the exception raised
Built(client) == [ok |-> TRUE, error |-> "", reason |-> "", client |-> <<client>>]
Raised(exc, reason) == [ok |-> FALSE, error |-> exc, reason |-> reason, client |-> <<>>]

\* _create_llm. OpenAILLM.__init__(self, api_key, model) takes no base_url, so the
\* call OpenAILLM(api_key=..., model=..., base_url=...) raises TypeError.
\* ClaudeLLM takes these three keywords (agents/moderator.py builds it the same way).
CreateLLM(cfg, env, spec) ==
    IF GetApiKey(cfg, env, spec.provider) = ""
    THEN Raised("ValueError", "no api key")
    ELSE IF spec.provider = "anthropic"
    THEN Built([provider |-> spec.provider, model |-> spec.model,
                api_key |-> GetApiKey(cfg, env, spec.provider),
                base_url |-> GetBaseUrl(cfg, env, spec.provider)])
    ELSE IF spec.provider = "openai"
    THEN Raised("TypeError", "unexpected keyword argument base_url")
    ELSE Raised("ValueError", "unknown provider")

\* _load_config: what it returns (<<>> : FileNotFoundError) ...
LoadConfig_Uncached(cache, store) == store
LoadConfig(cache, store) == IF cache # <<>> THEN cache ELSE store
\* ... and whether it opens the file
OpensStore(cache, store) == cache = <<>> /\ store # <<>>

\* a lookup that serves some configured role when the asked one is missing
RoleLookup_Defaulting(cfg, role) ==
    IF role \in DOMAIN cfg.roles THEN <<cfg.roles[role]>>
    ELSE <<cfg.roles[CHOOSE r \in DOMAIN cfg.roles : TRUE]>>
\* get_role_config, lines 75-81: <<role_data>>, or <<>> where it raises KeyError
RoleLookup(cfg, role) ==
    IF role \in DOMAIN cfg.roles THEN <<cfg.roles[role]>> ELSE <<>>

\* a loop that gives up after the first entry that raises ValueError
TryChain_StopsAtFirst(cfg, env, chain, i) ==
    IF i > Len(chain)
    THEN [kind |-> "exhausted", result |-> Raised("", ""), attempts |-> chain]
    ELSE LET res == CreateLLM(cfg, env, chain[i])
         IN  IF res.ok THEN [kind |-> "client", result |-> res, attempts |-> SubSeq(chain, 1, i)]
             ELSE IF res.error = "ValueError"
             THEN [kind |-> "exhausted", result |-> Raised("", ""), attempts |-> SubSeq(chain, 1, i)]
             ELSE [kind |-> "raised", result |-> res, attempts |-> SubSeq(chain, 1, i)]

\* for fb in chain: try _create_llm ... except ValueError: continue, from entry i on
RECURSIVE TryChain(_, _, _, _)
TryChain(cfg, env, chain, i) ==
    IF i > Len(chain)
    THEN [kind |-> "exhausted", result |-> Raised("", ""), attempts |-> chain]
    ELSE LET res == CreateLLM(cfg, env, chain[i])
         IN  IF res.ok THEN [kind |-> "client", result |-> res, attempts |-> SubSeq(chain, 1, i)]
             ELSE IF res.error = "ValueError" THEN TryChain(cfg, env, chain, i + 1)
             ELSE [kind |-> "raised", result |-> res, attempts |-> SubSeq(chain, 1, i)]

\* what a call into the module leaves behind
Call(op, role, store, config, outcome, exc, client, attempts, tried) ==
    [ op |-> op, role |-> role, store |-> store, config |-> config, outcome |-> outcome,
      error |-> exc, client |-> client, attempts |-> attempts, tried |-> tried,
      rc |-> IF outcome = "config" THEN RoleLookup(config[1], role) ELSE <<>> ]

\* the calls that start with get_role_config
Begin(op, role) ==
    LET config == LoadConfig(config_data, config_store)
    IN  IF config = <<>>
        THEN Call(op, role, config_store, config, "error", "FileNotFoundError", <<>>, <<>>, <<>>)
        ELSE IF RoleLookup(config[1], role) = <<>>
        THEN Call(op, role, config_store, config, "error", "KeyError", <<>>, <<>>, <<>>)
        ELSE Call(op, role, config_store, config, "config", "", <<>>, <<>>, <<>>)

\* the effect of _load_config on the module state
Loads ==
    /\ config_data' = LoadConfig(config_data, config_store)
    /\ store_reads' = IF OpensStore(config_data, config_store) THEN store_reads + 1
                      ELSE store_reads

\* get_role_config(role)
GetRoleConfig(role) ==
    /\ Loads
    /\ last_call' = Begin("get_role_config", role)
    /\ UNCHANGED <<workflowVars, moderator, config_store, environ, llm, extraction, trackerVars>>

\* create_llm_for_role(role)
CreateLlmForRole(role) ==
    /\ Loads
    /\ \E b \in {Begin("create_llm_for_role", role)} :
         IF b.outcome = "error" THEN last_call' = b
         ELSE \E rc \in {RoleLookup(b.config[1], role)[1]} :
              \E first \in {CreateLLM(b.config[1], environ, rc.primary)} :
                IF first.ok
                THEN last_call' = [b EXCEPT !.outcome = "client", !.client = first.client,
                                            !.attempts = <<rc.primary>>]
                ELSE IF first.error # "ValueError"
                THEN last_call' = [b EXCEPT !.outcome = "error", !.error = first.error,
                                            !.attempts = <<rc.primary>>]
                ELSE \E rest \in {TryChain(b.config[1], environ, rc.fallback, 1)} :
                  last_call' =
                    IF rest.kind = "client"
                    THEN [b EXCEPT !.outcome = "client", !.client = rest.result.client,
                                   !.attempts = <<rc.primary>> \o rest.attempts]
                    ELSE IF rest.kind = "raised"
                    THEN [b EXCEPT !.outcome = "error", !.error = rest.result.error,
                                   !.attempts = <<rc.primary>> \o rest.attempts]
                    ELSE [b EXCEPT !.outcome = "error", !.error = "ValueError: no available model",
                                   !.attempts = <<rc.primary>> \o rest.attempts,
                                   !.tried = <<rc.primary.model>> \o
                                       [i \in 1..Len(rc.fallback) |-> rc.fallback[i].model]]
    /\ UNCHANGED <<workflowVars, moderator, config_store, environ, llm, extraction, trackerVars>>

\* create_fallback_llm_for_role(role)
CreateFallbackLlmForRole(role) ==
    /\ Loads
    /\ \E b \in {Begin("create_fallback_llm_for_role", role)} :
         IF b.outcome = "error" THEN last_call' = b
         ELSE \E rest \in {TryChain(b.config[1], environ,
                                    RoleLookup(b.config[1], role)[1].fallback, 1)} :
              last_call' =
                IF rest.kind = "client"
                THEN [b EXCEPT !.outcome = "client", !.client = rest.result.client,
                               !.attempts = rest.attempts]
                ELSE IF rest.kind = "raised"
                THEN [b EXCEPT !.outcome = "error", !.error = rest.result.error,
                               !.attempts = rest.attempts]
                ELSE [b EXCEPT !.outcome = "none", !.attempts = rest.attempts]
    /\ UNCHANGED <<workflowVars, moderator, config_store, environ, llm, extraction, trackerVars>>

\* reload_config(): drop the cached copy and load again
ReloadConfig ==
    /\ config_data' = LoadConfig(<<>>, config_store)
    /\ store_reads' = IF OpensStore(<<>>, config_store) THEN 1 ELSE 0
    /\ last_call' =
          IF LoadConfig(<<>>, config_store) = <<>>
          THEN Call("reload_config", "", config_store, <<>>, "error", "FileNotFoundError",
                    <<>>, <<>>, <<>>)
          ELSE Call("reload_config", "", config_store, LoadConfig(<<>>, config_store), "none", "",
                    <<>>, <<>>, <<>>)
    /\ UNCHANGED <<workflowVars, moderator, config_store, environ, llm, extraction, trackerVars>>

\* config/models.json is edited, created or removed by an operator
StoreWritten(content) ==
    /\ config_store # <<content>>
    /\ config_store' = <<content>>
    /\ UNCHANGED <<workflowVars, moderator, config_data, environ, store_reads, last_call,
                 llm, extraction, trackerVars>>
StoreRemoved ==
    /\ config_store # <<>>
    /\ config_store' = <<>>
    /\ UNCHANGED <<workflowVars, moderator, config_data, environ, store_reads, last_call,
                 llm, extraction, trackerVars>>

\* the module is imported (_config_data = None) in some deployment
ResolverInit ==
    /\ WorkflowNotStarted
    /\ moderator = ModeratorIdle
    /\ config_data = <<>>
    /\ config_store \in {<<>>} \cup {<<c>> : c \in StoreContents}
    /\ environ \in SUBSET EnvNames
    /\ store_reads = 0
    /\ last_call = NoCall
    /\ llm = LlmIdle
    /\ extraction = NoExtraction
    /\ tracker = NewTracker
    /\ exported = <<>>
    /\ history = NoHistory

ResolverNext ==
    \/ \E role \in RoleNames : GetRoleConfig(role)
    \/ \E role \in RoleNames : CreateLlmForRole(role)
    \/ \E role \in RoleNames : CreateFallbackLlmForRole(role)
    \/ ReloadConfig
    \/ \E content \in StoreContents : StoreWritten(content)
    \/ StoreRemoved

ResolverSpec == ResolverInit /\ [][ResolverNext]_vars

(***************************************************************************)
(* OpenAILLM.generate (llm/openai.py) and LLMResponse (llm/base.py).       *)
(***************************************************************************)
\* what chat.completions.create answers: the first choice's text and finish_reason
\* ("stop": normal end, "length": cut at max_tokens), the model, the usage if any
ApiResponses ==
    [ content       : {"{\"scores\": {}}", "{\"scores\": {"},
      model         : {"gpt-4"},
      finish_reason : {"stop", "length"},
      usage         : {<<>>, <<[prompt_tokens |-> 100, completion_tokens |-> 50]>>,
                       <<[prompt_tokens |-> 2000, completion_tokens |-> 4096]>>} ]

\* the messages list of generate: the system message, if any, then the prompt
Messages(prompt, system) ==
    (IF system # <<>> THEN <<[role |-> "system", content |-> system[1]]>> ELSE <<>>)
        \o <<[role |-> "user", content |-> prompt]>>

\* the LLMResponse generate builds; stop_reason is not passed and keeps its
\* default None; <<>> stands for None
OpenAIResponse(api) ==
    [ content       |-> api.content,
      model         |-> api.model,
      provider      |-> "openai",
      input_tokens  |-> IF api.usage # <<>> THEN <<api.usage[1].prompt_tokens>> ELSE <<>>,
      output_tokens |-> IF api.usage # <<>> THEN <<api.usage[1].completion_tokens>> ELSE <<>>,
      stop_reason   |-> <<>> ]

\* a total that counts an absent count as zero
TotalTokens_PartialSum(response) ==
    IF response.input_tokens = <<>> /\ response.output_tokens = <<>> THEN <<>>
    ELSE <<(IF response.input_tokens # <<>> THEN response.input_tokens[1] ELSE 0)
           + (IF response.output_tokens # <<>> THEN response.output_tokens[1] ELSE 0)>>

\* LLMResponse.total_tokens
TotalTokens(response) ==
    IF response.input_tokens # <<>> /\ response.output_tokens # <<>>
    THEN <<response.input_tokens[1] + response.output_tokens[1]>> ELSE <<>>

\* generate is called: the messages are built and the API call is awaited
GenerateCalled(prompt, system) ==
    /\ llm.pc \in {"idle", "returned", "raised", "built"}
    /\ llm' = [pc |-> "awaiting", messages |-> Messages(prompt, system),
               completions |-> llm.completions]
    /\ UNCHANGED <<workflowVars, moderator, resolverVars, extraction, trackerVars>>

\* the API answered: generate returns the LLMResponse
GenerateReturns(api) ==
    /\ llm.pc = "awaiting"
    /\ \E response \in {OpenAIResponse(api)} :
          llm' = [pc |-> "returned", response |-> response,
                  total_tokens |-> TotalTokens(response),
                  completions |-> llm.completions \cup
                      {[finish_reason |-> api.finish_reason,
                        stop_reason |-> response.stop_reason,
                        total_tokens |-> TotalTokens(response)]}]
    /\ UNCHANGED <<workflowVars, moderator, resolverVars, extraction, trackerVars>>

\* the API call raises
GenerateFails ==
    /\ llm.pc = "awaiting"
    /\ llm' = [pc |-> "raised", completions |-> llm.completions]
    /\ UNCHANGED <<workflowVars, moderator, resolverVars, extraction, trackerVars>>

\* the token counts a provider may report, <<>> for None
TokenCounts == {<<>>, <<0>>, <<50>>, <<100>>}

\* an LLMResponse is built from the counts a provider reported and its
\* total_tokens is read
ResponseBuilt(input_tokens, output_tokens) ==
    /\ llm.pc # "awaiting"
    /\ \E response \in {[content |-> "test", model |-> "test-model", provider |-> "test",
                          input_tokens |-> input_tokens, output_tokens |-> output_tokens,
                          stop_reason |-> <<>>]} :
          llm' = [pc |-> "built", response |-> response,
                  total_tokens |-> TotalTokens(response), completions |-> llm.completions]
    /\ UNCHANGED <<workflowVars, moderator, resolverVars, extraction, trackerVars>>

LlmInit ==
    /\ WorkflowNotStarted
    /\ ComponentsAtRest

LlmNext ==
    \/ \E prompt \in {"review", "revise"}, system \in {<<>>, <<"editor">>} :
          GenerateCalled(prompt, system)
    \/ \E api \in ApiResponses : GenerateReturns(api)
    \/ GenerateFails
    \/ \E input_tokens, output_tokens \in TokenCounts : ResponseBuilt(input_tokens, output_tokens)

LlmSpec == LlmInit /\ [][LlmNext]_vars

(***************************************************************************)
(* repair_json (research_cli/utils/json_repair.py), the ResponseExtractor. *)
(* A text is a sequence of lexical tokens: structural characters, complete *)
(* strings, a string cut before its closing quote, numbers, whitespace,    *)
(* prose and code fences.  A parsed value is written as its tokens without *)
(* whitespace.                                                             *)
(***************************************************************************)
Openers == {"{", "["}
DocStrings == {"\"key\"", "\"value\""}
\* a string cut before its closing quote
CutString(s) == IF s = "\"key\"" THEN "\"ke" ELSE "\"val"
PartialStrings == {CutString(s) : s \in DocStrings}
\* the open string closed where it was cut
CloseString(p) == IF p = "\"ke" THEN "\"ke\"" ELSE "\"val\""
CompleteStrings == DocStrings \cup {CloseString(p) : p \in PartialStrings}
Scalars == CompleteStrings \cup {"1", "2"}
Blank == " "
ProseToken == "text"
\* the opening fence tagged json, and the bare fence
FenceOpen == "<fence json>"
FenceClose == "<fence>"

\* well-formed records, serialized
Documents ==
    { <<"{", "}">>,
      <<"{", "\"key\"", ":", "1", "}">>,
      <<"{", "\"key\"", ":", "\"value\"", ",", "\"value\"", ":", "2", "}">>,
      <<"{", "\"key\"", ":", "[", "1", ",", "\"value\"", "]", ",",
             "\"value\"", ":", "{", "\"key\"", ":", "2", "}", "}">>,
      <<"[", "1", ",", "{", "\"key\"", ":", "\"value\"", "}", "]">> }

Prefix(toks, k) == SubSeq(toks, 1, k)
Front(toks) == SubSeq(toks, 1, Len(toks) - 1)
Top(stack) == stack[Len(stack)]

\* the state of the parser: the open containers and what may come next
ScanStart == [stack |-> <<>>, expect |-> "value"]
AfterValue(stack) == [stack |-> stack, expect |-> IF stack = <<>> THEN "done" ELSE "sep"]

ScanStep(st, tok) ==
    LET bad == [stack |-> st.stack, expect |-> "bad"] IN
    CASE st.expect \in {"value", "value_or_close"} ->
            IF tok \in Scalars THEN AfterValue(st.stack)
            ELSE IF tok \in Openers
                 THEN [stack |-> Append(st.stack, tok),
                       expect |-> IF tok = "{" THEN "key_or_close" ELSE "value_or_close"]
            ELSE IF tok = "]" /\ st.expect = "value_or_close" THEN AfterValue(Front(st.stack))
            ELSE bad
      [] st.expect \in {"key", "key_or_close"} ->
            IF tok \in CompleteStrings THEN [stack |-> st.stack, expect |-> "colon"]
            ELSE IF tok = "}" /\ st.expect = "key_or_close" THEN AfterValue(Front(st.stack))
            ELSE bad
      [] st.expect = "colon" ->
            IF tok = ":" THEN [stack |-> st.stack, expect |-> "value"] ELSE bad
      [] st.expect = "sep" ->
            IF tok = ","
            THEN [stack |-> st.stack, expect |-> IF Top(st.stack) = "{" THEN "key" ELSE "value"]
            ELSE IF (tok = "}" /\ Top(st.stack) = "{") \/ (tok = "]" /\ Top(st.stack) = "[")
                 THEN AfterValue(Front(st.stack))
            ELSE bad
      [] OTHER -> bad

RECURSIVE ScanFrom(_, _)
ScanFrom(st, toks) ==
    IF toks = <<>> THEN st ELSE ScanFrom(ScanStep(st, Head(toks)), Tail(toks))

Scan(toks) == ScanFrom(ScanStart, toks)

RECURSIVE DropBlanks(_)
DropBlanks(toks) ==
    IF toks = <<>> THEN <<>>
    ELSE IF Head(toks) = Blank THEN DropBlanks(Tail(toks))
    ELSE <<Head(toks)>> \o DropBlanks(Tail(toks))

\* a successful parse is <<value>>, a failed one <<>>
Parse(toks) ==
    IF Scan(DropBlanks(toks)).expect = "done" THEN <<DropBlanks(toks)>> ELSE <<>>

\* the result must be a single root object or array
IsRecord_OrScalar(parsed) == parsed # <<>>

IsRecord(parsed) == parsed # <<>> /\ parsed[1][1] \in Openers

Positions(toks, S) == {i \in 1..Len(toks) : toks[i] \in S}
First(S) == CHOOSE i \in S : \A j \in S : i <= j
Final(S) == CHOOSE i \in S : \A j \in S : j <= i

\* strategy 1: the text as it is
Direct(text) == Parse(text)

\* strategy 2: the interior of the tagged fenced block, closed or not
FencedBlock(text) ==
    LET opens == Positions(text, {FenceOpen}) IN
    IF opens = {} THEN <<>>
    ELSE LET from   == First(opens) + 1
             closes == {i \in Positions(text, {FenceClose}) : i >= from}
             to     == IF closes = {} THEN Len(text) ELSE First(closes) - 1
         IN Parse(SubSeq(text, from, to))

\* strategy 3: from the first opening brace to the last closing brace
BraceSpan(text) ==
    LET first == Positions(text, {"{"})
        last  == Positions(text, {"}"})
    IN IF first = {} \/ last = {} THEN <<>>
       ELSE Parse(SubSeq(text, First(first), Final(last)))

\* the closing delimiters of the open containers, innermost first
RECURSIVE ClosersFor(_)
ClosersFor(stack) ==
    IF stack = <<>> THEN <<>>
    ELSE <<IF Top(stack) = "{" THEN "}" ELSE "]">> \o ClosersFor(Front(stack))

\* an open string at the end is closed
CloseOpenString(toks) ==
    IF toks # <<>> /\ toks[Len(toks)] \in PartialStrings
    THEN Front(toks) \o <<CloseString(toks[Len(toks)])>>
    ELSE toks

\* what was mid-flight at the end is dropped: a trailing comma, a key
\* separator with no value, a key with no separator
RECURSIVE DropMidFlight(_)
DropMidFlight(toks) ==
    IF toks # <<>> /\ Scan(toks).expect \in {"key", "value", "colon"}
    THEN DropMidFlight(Front(toks))
    ELSE toks

\* strategy 4 closing the string and the containers with nothing dropped
TruncationRepair_NothingDropped(text) ==
    LET opens == Positions(text, Openers) IN
    IF opens = {} THEN <<>>
    ELSE LET body == DropBlanks(SubSeq(text, First(opens), Len(text)))
             kept == CloseOpenString(body)
         IN Parse(kept \o ClosersFor(Scan(kept).stack))

\* strategy 4: from the first opening delimiter, close the open string and
\* the open containers and parse the prefix
TruncationRepair(text) ==
    LET opens == Positions(text, Openers) IN
    IF opens = {} THEN <<>>
    ELSE LET body == DropBlanks(SubSeq(text, First(opens), Len(text)))
             kept == DropMidFlight(CloseOpenString(body))
         IN Parse(kept \o ClosersFor(Scan(kept).stack))

Recovered(strategy, parsed) ==
    [outcome |-> "record", record |-> parsed[1], strategy |-> strategy]
MalformedResponse == [outcome |-> "error", record |-> <<>>, strategy |-> 0]

\* the strategies with the brace span tried before the direct parse
RepairJson_BraceSpanFirst(text) ==
    IF IsRecord(BraceSpan(text)) THEN Recovered(3, BraceSpan(text))
    ELSE IF IsRecord(Direct(text)) THEN Recovered(1, Direct(text))
    ELSE IF IsRecord(FencedBlock(text)) THEN Recovered(2, FencedBlock(text))
    ELSE IF IsRecord(TruncationRepair(text)) THEN Recovered(4, TruncationRepair(text))
    ELSE MalformedResponse

\* repair_json: the strategies in priority order, the first success returned
RepairJson(text) ==
    IF IsRecord(Direct(text)) THEN Recovered(1, Direct(text))
    ELSE IF IsRecord(FencedBlock(text)) THEN Recovered(2, FencedBlock(text))
    ELSE IF IsRecord(BraceSpan(text)) THEN Recovered(3, BraceSpan(text))
    ELSE IF IsRecord(TruncationRepair(text)) THEN Recovered(4, TruncationRepair(text))
    ELSE MalformedResponse

(***************************************************************************)
(* The texts a reviewer call may answer with.                              *)
(***************************************************************************)
Answer(text, kind, doc, cut) == [text |-> text, kind |-> kind, doc |-> doc, cut |-> cut]

\* a record, optionally surrounded by whitespace
WellFormedTexts ==
    {Answer(pre \o d \o post, "wellformed", d, 0) :
        pre \in {<<>>, <<Blank>>}, post \in {<<>>, <<Blank>>}, d \in Documents}

\* a record in a tagged fenced block, with or without prose before it, with
\* or without the closing fence and prose after it
FencedTexts ==
    {Answer(pre \o <<FenceOpen, Blank>> \o d \o post, "fenced", d, 0) :
        pre \in {<<>>, <<ProseToken, Blank>>},
        post \in {<<>>, <<Blank, FenceClose>>, <<Blank, FenceClose, Blank, ProseToken>>},
        d \in Documents}

\* a record with prose around it
ProseTexts ==
    {Answer(w[1] \o d \o w[2], "prose", d, 0) :
        w \in {<<<<ProseToken, Blank>>, <<>>>>, <<<<>>, <<Blank, ProseToken>>>>,
               <<<<ProseToken, Blank>>, <<Blank, ProseToken>>>>},
        d \in Documents}

\* the truncations of a serialization: after a token, or inside a string
Truncations(d) ==
    {Prefix(d, k) : k \in 1..(Len(d) - 1)}
        \cup {Prefix(d, k) \o <<CutString(d[k + 1])>> :
                 k \in {i \in 1..(Len(d) - 1) : d[i + 1] \in DocStrings}}

TruncatedTexts ==
    UNION {{Answer(pre \o t, "truncated", d, Len(t)) :
               pre \in {<<>>, <<FenceOpen, Blank>>}, t \in Truncations(d)} : d \in Documents}

\* nothing at all
EmptyTexts == {Answer(t, "empty", <<>>, 0) : t \in {<<>>, <<Blank>>}}

\* no opening or closing delimiter anywhere
NoBraceTexts ==
    {Answer(t, "no_brace", <<>>, 0) :
        t \in {<<ProseToken>>, <<"1">>, <<"\"value\"">>, <<"\"val">>,
               <<FenceOpen, Blank, ProseToken>>, <<ProseToken, Blank, "2", ",", "\"key\"">>}}

\* delimiters, but no single root object or array even after repair
UnrootedTexts ==
    {Answer(t, "unrooted", <<>>, 0) :
        t \in {<<"}">>, <<"{", "}", "}">>, <<"{", "]">>, <<"{", "\"key\"", "1">>,
               <<"[", "1", "]", ",", "[">>, <<"{", ProseToken>>}}

AnswerTexts ==
    WellFormedTexts \cup FencedTexts \cup ProseTexts \cup TruncatedTexts
        \cup EmptyTexts \cup NoBraceTexts \cup UnrootedTexts

\* str.strip on a text
StripBlanks(toks) ==
    LET inked == {i \in 1..Len(toks) : toks[i] # Blank}
    IN  IF inked = {} THEN <<>> ELSE SubSeq(toks, First(inked), Final(inked))

\* generate_review's cleaning: strip, drop a leading ```json, a leading ```,
\* a trailing ```, strip
CleanReviewContent(content) ==
    LET c0 == StripBlanks(content)
        c1 == IF c0 # <<>> /\ Head(c0) = FenceOpen THEN Tail(c0) ELSE c0
        c2 == IF c1 # <<>> /\ Head(c1) = FenceClose THEN Tail(c1) ELSE c1
        c3 == IF c2 # <<>> /\ c2[Len(c2)] = FenceClose THEN Front(c2) ELSE c2
    IN  StripBlanks(c3)

\* a reviewer call returned this text
AnswerReceived(answer) ==
    /\ extraction' = [pc |-> "received", answer |-> answer]
    /\ UNCHANGED <<workflowVars, moderator, resolverVars, llm, trackerVars>>

\* repair_json(text) returns the record or raises
RepairJsonCalled ==
    /\ extraction.pc = "received"
    /\ \E result \in {RepairJson(extraction.answer.text)} :
          extraction' = [pc |-> "extracted", answer |-> extraction.answer, result |-> result]
    /\ UNCHANGED <<workflowVars, moderator, resolverVars, llm, trackerVars>>

\* generate_review parses the text itself: the cleaning, then json.loads
GenerateReviewParses ==
    /\ extraction.pc = "received"
    /\ \E loaded \in {Parse(CleanReviewContent(extraction.answer.text))} :
          extraction' = [pc |-> "parsed", answer |-> extraction.answer,
                         outcome |-> IF loaded # <<>> THEN "review_data" ELSE "raised",
                         review_data |-> loaded]
    /\ UNCHANGED <<workflowVars, moderator, resolverVars, llm, trackerVars>>

ExtractorInit ==
    /\ WorkflowNotStarted
    /\ ComponentsAtRest

ExtractorNext ==
    \/ \E answer \in AnswerTexts : AnswerReceived(answer)
    \/ RepairJsonCalled
    \/ GenerateReviewParses

ExtractorSpec == ExtractorInit /\ [][ExtractorNext]_vars

(***************************************************************************)
(* PerformanceTracker (research_cli/performance.py).                       *)
(***************************************************************************)
\* calls on the tracker in one behaviour, and how many of them are start_round and
\* export_metrics calls
MaxCallsBound == 6
MaxStartsBound == 2
MaxExportsBound == 1

\* the round numbers, reviewer ids, durations and token counts callers pass
RoundNumbers == 1..MaxStartsBound
ReviewerIds == {"reviewer_1"}
Durations == {2}
TokenAmounts == {100}
\* operations timed by name
OpNames == {<<"initial_draft", 0>>}
\* f"round_{round_number}"
RoundTimer(n) == <<"round_", n>>

\* RoundMetrics(round_number=n, review_start=now, review_end="", review_duration=0.0)
RoundMetrics(n) ==
    [ round_number |-> n, review_start |-> "now", review_end |-> "", review_duration |-> 0,
      reviewer_times |-> <<>>, moderator_time |-> 0, revision_time |-> <<>>, round_tokens |-> 0 ]

\* the RoundMetrics objects a list of references stands for
Metrics(t, refs) == [i \in DOMAIN refs |-> t.objects[refs[i]]]
\* the list object self._rounds, which export_metrics hands out as it is (line 252)
RoundsList == "self._rounds"
\* the rounds an exported value lists now: the content of the list it refers to
RoundsOf(pm) == Metrics(tracker, tracker.rounds)

\* sum(r.round_tokens for r in rounds)
RECURSIVE SumOfRoundTokens(_)
SumOfRoundTokens(rounds) ==
    IF rounds = <<>> THEN 0
    ELSE rounds[1].round_tokens + SumOfRoundTokens(Tail(rounds))

\* a tracker whose record_* methods, with no round open, write to the last sealed round
Recorded_IntoLastSealed(t, attr, value) ==
    IF t.current_round # <<>>
    THEN [t EXCEPT !.objects[t.current_round[1]][attr] = value]
    ELSE IF t.rounds # <<>>
    THEN [t EXCEPT !.objects[t.rounds[Len(t.rounds)]][attr] = value]
    ELSE t
\* if self._current_round: self._current_round.<attr> = value
Recorded(t, attr, value) ==
    IF t.current_round # <<>>
    THEN [t EXCEPT !.objects[t.current_round[1]][attr] = value]
    ELSE t

\* one more call on the tracker, of a method other than start_round, end_round, export_metrics
Called(method) ==
    /\ history.calls < MaxCallsBound
    /\ history' = [history EXCEPT !.calls = @ + 1, !.last = method]

\* start_workflow()
StartWorkflow ==
    /\ Called("start_workflow")
    /\ tracker' = [tracker EXCEPT !.workflow_start = <<"now">>]
    /\ UNCHANGED <<workflowVars, moderator, resolverVars, llm, extraction, exported>>

\* start_operation(name)
StartOperation(name) ==
    /\ Called("start_operation")
    /\ tracker' = [tracker EXCEPT !.timers = @ \cup {name}]
    /\ UNCHANGED <<workflowVars, moderator, resolverVars, llm, extraction, exported>>

\* end_operation(name): 0.0 for a name that is not timed, else the timer is deleted
EndOperation(name) ==
    /\ Called("end_operation")
    /\ tracker' = [tracker EXCEPT !.timers = @ \ {name}]
    /\ UNCHANGED <<workflowVars, moderator, resolverVars, llm, extraction, exported>>

\* with track_operation(name): start_operation, the body, end_operation
TrackOperation(name) ==
    /\ Called("track_operation")
    /\ tracker' = [tracker EXCEPT !.timers = (@ \cup {name}) \ {name}]
    /\ UNCHANGED <<workflowVars, moderator, resolverVars, llm, extraction, exported>>

\* record_team_composition(duration, tokens)
RecordTeamComposition(duration, tokens) ==
    /\ Called("record_team_composition")
    /\ tracker' = [tracker EXCEPT !.team_composition_time = duration,
                                  !.team_composition_tokens = tokens]
    /\ UNCHANGED <<workflowVars, moderator, resolverVars, llm, extraction, exported>>

\* record_initial_draft(duration, tokens)
RecordInitialDraft(duration, tokens) ==
    /\ Called("record_initial_draft")
    /\ tracker' = [tracker EXCEPT !.initial_draft_time = duration,
                                  !.initial_draft_tokens = tokens]
    /\ UNCHANGED <<workflowVars, moderator, resolverVars, llm, extraction, exported>>

\* start_round(round_number): a new RoundMetrics replaces _current_round
StartRound(n) ==
    /\ history.calls < MaxCallsBound
    /\ Len(history.starts) < MaxStartsBound
    /\ tracker' = [tracker EXCEPT !.objects = Append(@, RoundMetrics(n)),
                                  !.current_round = <<Len(tracker.objects) + 1>>,
                                  !.timers = @ \cup {RoundTimer(n)}]
    /\ history' = [history EXCEPT !.starts = Append(@, n), !.calls = @ + 1,
                                  !.last = "start_round"]
    /\ UNCHANGED <<workflowVars, moderator, resolverVars, llm, extraction, exported>>

\* record_reviewer_time(reviewer_id, duration)
RecordReviewerTime(reviewer_id, duration) ==
    /\ Called("record_reviewer_time")
    /\ tracker' =
          IF tracker.current_round = <<>> THEN tracker
          ELSE LET times == tracker.objects[tracker.current_round[1]].reviewer_times
               IN  Recorded(tracker, "reviewer_times",
                            [r \in DOMAIN times \cup {reviewer_id} |->
                                IF r = reviewer_id THEN duration ELSE times[r]])
    /\ UNCHANGED <<workflowVars, moderator, resolverVars, llm, extraction, exported>>

\* record_moderator_time(duration)
RecordModeratorTime(duration) ==
    /\ Called("record_moderator_time")
    /\ tracker' = Recorded(tracker, "moderator_time", duration)
    /\ UNCHANGED <<workflowVars, moderator, resolverVars, llm, extraction, exported>>

\* record_revision_time(duration)
RecordRevisionTime(duration) ==
    /\ Called("record_revision_time")
    /\ tracker' = Recorded(tracker, "revision_time", <<duration>>)
    /\ UNCHANGED <<workflowVars, moderator, resolverVars, llm, extraction, exported>>

\* record_round_tokens(tokens)
RecordRoundTokens(tokens) ==
    /\ Called("record_round_tokens")
    /\ tracker' = Recorded(tracker, "round_tokens", tokens)
    /\ UNCHANGED <<workflowVars, moderator, resolverVars, llm, extraction, exported>>

\* end_round(): seals the current round, if there is one
EndRound ==
    /\ history.calls < MaxCallsBound
    /\ IF tracker.current_round = <<>> THEN tracker' = tracker
       ELSE LET ref   == tracker.current_round[1]
                timer == RoundTimer(tracker.objects[ref].round_number)
            IN  \E duration \in (IF timer \in tracker.timers THEN Durations ELSE {0}) :
                  tracker' = [tracker EXCEPT !.timers = @ \ {timer},
                                             !.objects[ref].review_duration = duration,
                                             !.objects[ref].review_end = "now",
                                             !.rounds = Append(@, ref),
                                             !.current_round = <<>>]
    /\ history' = [history EXCEPT !.calls = @ + 1, !.ends = @ + 1, !.last = "end_round",
                                  !.unmatched = @ \/ history.ends >= Len(history.starts)]
    /\ UNCHANGED <<workflowVars, moderator, resolverVars, llm, extraction, exported>>

\* export_metrics(): ValueError before start_workflow, else a PerformanceMetrics whose
\* rounds is the tracker's own list; estimated_cost in millionths, (tokens / 1000) * 0.003
ExportMetrics ==
    /\ history.calls < MaxCallsBound
    /\ Len(exported) < MaxExportsBound
    /\ IF tracker.workflow_start = <<>>
       THEN /\ history' = [history EXCEPT !.raised = "ValueError", !.calls = @ + 1,
                                       !.last = "export_metrics"]
            /\ UNCHANGED exported
       ELSE /\ \E total \in {tracker.initial_draft_tokens + tracker.team_composition_tokens
                                     + SumOfRoundTokens(Metrics(tracker, tracker.rounds))} :
                 exported' = Append(exported,
                    [ workflow_start |-> tracker.workflow_start[1], workflow_end |-> "now",
                      initial_draft_time |-> tracker.initial_draft_time,
                      initial_draft_tokens |-> tracker.initial_draft_tokens,
                      team_composition_time |-> tracker.team_composition_time,
                      team_composition_tokens |-> tracker.team_composition_tokens,
                      rounds |-> RoundsList,
                      total_tokens |-> total,
                      estimated_cost |-> total * 3 ])
            /\ history' = [history EXCEPT !.raised = "", !.calls = @ + 1,
                                       !.last = "export_metrics"]
    /\ UNCHANGED <<workflowVars, moderator, resolverVars, llm, extraction, tracker>>

TrackerInit ==
    /\ WorkflowNotStarted
    /\ ComponentsAtRest

TrackerNext ==
    \/ StartWorkflow
    \/ \E name \in OpNames : StartOperation(name)
    \/ \E name \in OpNames : EndOperation(name)
    \/ \E name \in OpNames : TrackOperation(name)
    \/ \E duration \in Durations, tokens \in TokenAmounts : RecordTeamComposition(duration, tokens)
    \/ \E duration \in Durations, tokens \in TokenAmounts : RecordInitialDraft(duration, tokens)
    \/ \E n \in RoundNumbers : StartRound(n)
    \/ \E reviewer_id \in ReviewerIds, duration \in Durations :
          RecordReviewerTime(reviewer_id, duration)
    \/ \E duration \in Durations : RecordModeratorTime(duration)
    \/ \E duration \in Durations : RecordRevisionTime(duration)
    \/ \E tokens \in TokenAmounts : RecordRoundTokens(tokens)
    \/ EndRound
    \/ ExportMetrics

TrackerSpec == TrackerInit /\ [][TrackerNext]_vars

(***************************************************************************)
(* Vocabulary of the properties.                                           *)
(***************************************************************************)
\* run_review_round has returned for the current round
PanelReturned == overall_average # <<>>
\* the loop was left through one of its two break statements, or is past it
AfterLoop == pc \in {"summary", "cost", "done"}
\* the specialists of a review list, in list order
SpecialistsOf(rs) == [i \in 1..Len(rs) |-> rs[i].specialist]
\* the mean of the record's per-review averages is exactly the record's threshold
ExactlyAtThreshold(rec) ==
    LET m == ExactMean(rec.reviews)
    IN  m.n * rec.threshold.d = rec.threshold.n * m.d
\* every other order in which the calls behind a review list can complete
Reorderings(rs) ==
    { [i \in 1..Len(rs) |-> rs[p[i]]] :
        p \in { q \in [1..Len(rs) -> 1..Len(rs)] : \A i, j \in 1..Len(rs) : q[i] = q[j] => i = j } }

(***************************************************************************)
(* C1: whenever the mean of a round's per-review averages is exactly the   *)
(* threshold, the round takes the PASSED branch: its record says passed,   *)
(* no revision is requested for it and no further round is run.            *)
(***************************************************************************)
C1_ExactThresholdPasses ==
    \A i \in 1..Len(all_rounds) :
        ExactlyAtThreshold(all_rounds[i]) =>
            /\ all_rounds[i].passed
            /\ i = Len(all_rounds)
            /\ pc # "revising"
            /\ AfterLoop => status = "PASSED"

(***************************************************************************)
(* C2: for max_rounds = N >= 1, a run whose rounds all score below the     *)
(* threshold leaves the loop as MAX_ROUNDS_REACHED with exactly N records  *)
(* numbered 1..N, and the manuscript saved as final is the text of version *)
(* N, the one reviewed in round N (the answer to the last revise call).    *)
(***************************************************************************)
C2_ExhaustedAfterN ==
    ( /\ max_rounds >= 1
      /\ AfterLoop
      /\ \A i \in 1..Len(all_rounds) : ~all_rounds[i].passed )
    => /\ status = "MAX_ROUNDS_REACHED"
       /\ Len(all_rounds) = max_rounds
       /\ \A i \in 1..Len(all_rounds) : all_rounds[i].round = i
       /\ <<"manuscript_final_v", max_rounds>> \in DOMAIN files
       /\ <<"manuscript_final", 0>> \notin DOMAIN files
       /\ files[<<"manuscript_final_v", max_rounds>>] = files[<<"manuscript_v", max_rounds>>]
       /\ files[<<"manuscript_final_v", max_rounds>>] = current_manuscript
       /\ all_rounds[max_rounds].word_count = WordCount(current_manuscript)
       /\ max_rounds > 1 => writer_prompt # <<>> /\ writer_prompt[1].round = max_rounds - 1

C2_Witness ==
    /\ pc = "done"
    /\ max_rounds = 2
    /\ status = "MAX_ROUNDS_REACHED"
    /\ files[<<"manuscript_final_v", 2>>] = "revision B"

(***************************************************************************)
(* C3: a run in which no model call failed or hung ends PASSED or          *)
(* MAX_ROUNDS_REACHED (exhausted), after at most max_rounds rounds.        *)
(***************************************************************************)
C3_EndsPassedOrExhausted ==
    ( /\ pc \in {"done", "aborted"}
      /\ error \notin FailureKinds \cup {"writer call failed"} )
    => /\ pc = "done"
       /\ status \in {"PASSED", "MAX_ROUNDS_REACHED"}
       /\ status = "PASSED" => all_rounds[Len(all_rounds)].passed
       /\ status = "MAX_ROUNDS_REACHED" => Len(all_rounds) = max_rounds
       /\ Len(all_rounds) <= max_rounds

(***************************************************************************)
(* C4: the list run_review_round returns holds exactly one review per      *)
(* specialist id, whatever the order the calls completed in.               *)
(***************************************************************************)
OneReviewPerSpecialist(rs) ==
    /\ Len(rs) = Cardinality(Specialists)
    /\ \A s \in Specialists : Cardinality({i \in 1..Len(rs) : rs[i].specialist = s}) = 1

C4_OneReviewPerSpecialist ==
    /\ PanelReturned => OneReviewPerSpecialist(reviews)
    /\ \A i \in 1..Len(all_rounds) : OneReviewPerSpecialist(all_rounds[i].reviews)

C4_Witness ==
    /\ PanelReturned
    /\ SpecialistsOf(reviews) = <<"distributed_systems", "economics", "cryptography">>

(***************************************************************************)
(* C5: the review list of a round is ordered by specialist identity: the   *)
(* lists returned for any two rounds name the specialists in the same      *)
(* sequence, whatever the completion order was.                            *)
(***************************************************************************)
C5_SameSpecialistSequence ==
    \A i, j \in 1..Len(all_rounds) :
        SpecialistsOf(all_rounds[i].reviews) = SpecialistsOf(all_rounds[j].reviews)

(***************************************************************************)
(* C6: the consolidated feedback sent to the writer (and the moderator's   *)
(* digest) depends on the review contents only: any other completion order *)
(* of the same reviews yields the same text.                               *)
(***************************************************************************)
C6_FeedbackIndependentOfOrder ==
    writer_prompt # <<>> =>
        \A rs \in Reorderings(all_rounds[writer_prompt[1].round].reviews) :
            /\ ConsolidateFeedback(rs) = writer_prompt[1].feedback
            /\ FormatReviews(rs) = FormatReviews(all_rounds[writer_prompt[1].round].reviews)

(***************************************************************************)
(* C7: when a reviewer call of round k fails, the round is discarded: no   *)
(* overall average is computed, no record of round k is appended to        *)
(* all_rounds or written to round_k.json, and no pass / max-rounds /       *)
(* revise branch is taken for it.                                          *)
(***************************************************************************)
C7_FailedRoundDiscarded ==
    error \in FailureKinds =>
        /\ pc = "aborted"
        /\ overall_average = <<>>
        /\ Len(all_rounds) = round_num - 1
        /\ \A i \in 1..Len(all_rounds) : all_rounds[i].round # round_num
        /\ <<"round", round_num>> \notin DOMAIN files
        /\ <<"manuscript_final", 0>> \notin DOMAIN files
        /\ <<"manuscript_final_v", round_num>> \notin DOMAIN files
        /\ <<"manuscript_v", round_num + 1>> \notin DOMAIN files
        /\ <<"workflow_complete", 0>> \notin DOMAIN files
        /\ status = (IF round_num = 1 THEN "none" ELSE "REVISION_NEEDED")
        /\ writer_prompt # <<>> => writer_prompt[1].round < round_num

C7_Witness ==
    /\ pc = "aborted"
    /\ error = "unparseable"
    /\ round_num = 2
    /\ Len(reviews) = 2

(***************************************************************************)
(* C8: a round-level time budget is enforced: once a reviewer call of a    *)
(* panel hangs, the panel is eventually treated as failed and the          *)
(* controller leaves the wait for it.                                      *)
(***************************************************************************)
C8_HungPanelEventuallyFails == (pc = "panel" /\ hung # {}) ~> (pc # "panel")

(***************************************************************************)
(* C9: a round's record is appended to all_rounds (and written) before the *)
(* round's branch executes; all_rounds always holds the records of rounds  *)
(* 1..k in order, and a step only ever appends one record: none is         *)
(* skipped, overwritten or modified.                                       *)
(***************************************************************************)
C9_SealedBeforeBranch ==
    /\ [](/\ \A i \in 1..Len(all_rounds) : all_rounds[i].round = i
          /\ pc \in {"branch", "revising"} =>
                /\ Len(all_rounds) = round_num
                /\ all_rounds[round_num].reviews = reviews
                /\ files[<<"round", round_num>>] = all_rounds[round_num]
          /\ pc \in {"panel", "seal"} => Len(all_rounds) = round_num - 1)
    /\ [][/\ Len(all_rounds) <= Len(all_rounds') /\ Len(all_rounds') <= Len(all_rounds) + 1
          /\ \A i \in 1..Len(all_rounds) : all_rounds'[i] = all_rounds[i]
          /\ status' # status => Len(all_rounds) = round_num]_vars

C9_Witness ==
    /\ pc = "done"
    /\ Len(all_rounds) = 2
    /\ all_rounds[1].reviews # all_rounds[2].reviews

(***************************************************************************)
(* C10: a run that aborts after completing rounds still hands the          *)
(* workflow record to persistence, holding the records of the rounds       *)
(* completed before the abort.                                             *)
(***************************************************************************)
C10_AbortKeepsRounds ==
    (pc = "aborted" /\ all_rounds # <<>>) =>
        /\ <<"workflow_complete", 0>> \in DOMAIN files
        /\ files[<<"workflow_complete", 0>>].rounds = all_rounds

(***************************************************************************)
(* C11: in every round the moderator's decision is produced once, after    *)
(* the panel returned and before the branch, and every sealed round record *)
(* carries that decision.                                                  *)
(***************************************************************************)
C11_RecordCarriesDecision ==
    /\ \A i \in 1..Len(all_rounds) : "decision" \in DOMAIN all_rounds[i]
    /\ \A f \in DOMAIN files : f[1] = "round" => "decision" \in DOMAIN files[f]

(***************************************************************************)
(* C12: the branch taken after a round is determined by the aggregate      *)
(* average, the threshold, the round number and max_rounds alone: the      *)
(* status a branch step sets is the same for every run that agrees on      *)
(* these four values, whatever labels the reviews carry.                   *)
(***************************************************************************)
BranchFor(avg, thr, r, m) ==
    IF DblGE[avg, thr] THEN "PASSED"
    ELSE IF r >= m THEN "MAX_ROUNDS_REACHED" ELSE "REVISION_NEEDED"

C14_EmptyRevisionRejected ==
    /\ current_manuscript # ""
    /\ \A f \in DOMAIN files : f[1] = "manuscript_v" => files[f] # ""
    /\ \A i \in 1..Len(all_rounds) : all_rounds[i].word_count > 0

(***************************************************************************)
(* C13: when the moderator's answer cannot be parsed into a structured     *)
(* record, make_decision raises and returns nothing: a decision is         *)
(* returned only for an answer that is one JSON object (fences and         *)
(* surrounding whitespace aside), and its label is the one that object     *)
(* carries, never one made up locally.                                     *)
(***************************************************************************)
\* the answer, fences and whitespace aside, is exactly one JSON object
HoldsOneRecord(content) ==
    LET ink == {i \in 1..Len(content) : content[i] \notin {WS, Fence, JsonWord}}
    IN  /\ Cardinality(ink) = 1
        /\ \A i \in ink : content[i].t = "value" /\ content[i].kind = "object"

C13_NoDecisionFromUnparseable ==
    /\ moderator.pc = "returned" =>
          /\ HoldsOneRecord(moderator.content)
          /\ \E i \in 1..Len(moderator.content) :
                moderator.content[i] = JsonObject(moderator.result.decision)
    /\ moderator.pc = "raised" => "result" \notin DOMAIN moderator

C13_Witness ==
    /\ moderator.pc = "raised"
    /\ moderator.error = "ValueError"
    /\ moderator.content = <<Fence, JsonWord, WS, Prose, WS, JsonObject("ACCEPT"), WS, Fence>>

(***************************************************************************)
(* Vocabulary of the properties of role resolution.                        *)
(***************************************************************************)
\* the last call resolved a role the configuration it used defines
ResolvedRole(op) ==
    /\ last_call.op = op
    /\ last_call.config # <<>>
    /\ RoleLookup(last_call.config[1], last_call.role) # <<>>
\* the role data that call worked on
RoleOfCall == RoleLookup(last_call.config[1], last_call.role)[1]
\* the entries of a chain whose construction succeeds in the call's environment
Constructible(chain) ==
    {i \in 1..Len(chain) : CreateLLM(last_call.config[1], environ, chain[i]).ok}
Least(S) == CHOOSE i \in S : \A j \in S : i <= j
\* the client the call returned is bound to the given entry
BoundTo(spec) ==
    /\ last_call.outcome = "client"
    /\ last_call.client[1].provider = spec.provider
    /\ last_call.client[1].model = spec.model
\* the primary of the call's role has no credential in the environment
PrimaryLacksCredential ==
    GetApiKey(last_call.config[1], environ, RoleOfCall.primary.provider) = ""
NoAvailableModel == "ValueError: no available model"

(***************************************************************************)
(* C15: when the primary's construction fails for a missing credential,    *)
(* create_llm_for_role returns a client bound to the first fallback entry, *)
(* in declared order, whose construction succeeds.                         *)
(***************************************************************************)
C15_FirstConstructibleFallback ==
    ( /\ ResolvedRole("create_llm_for_role")
      /\ PrimaryLacksCredential
      /\ Constructible(RoleOfCall.fallback) # {} )
    => BoundTo(RoleOfCall.fallback[Least(Constructible(RoleOfCall.fallback))])

(***************************************************************************)
(* C16: when the primary's construction fails although its credential is   *)
(* present (a generic fault, such as an unknown provider name), the fault  *)
(* propagates to the caller and no fallback entry is tried.                *)
(***************************************************************************)
C16_GenericFaultPropagates ==
    ( /\ ResolvedRole("create_llm_for_role")
      /\ ~PrimaryLacksCredential
      /\ ~CreateLLM(last_call.config[1], environ, RoleOfCall.primary).ok )
    => /\ last_call.outcome = "error"
       /\ last_call.error = CreateLLM(last_call.config[1], environ, RoleOfCall.primary).error
       /\ last_call.attempts = <<RoleOfCall.primary>>

(***************************************************************************)
(* C17: create_llm_for_role fails with the no-available-model error if and *)
(* only if the primary and every fallback entry fail to construct, and the *)
(* error names the primary model and every fallback model attempted.       *)
(***************************************************************************)
C17_NoAvailableIffAllFail ==
    ResolvedRole("create_llm_for_role") =>
        /\ (last_call.error = NoAvailableModel) <=>
              /\ ~CreateLLM(last_call.config[1], environ, RoleOfCall.primary).ok
              /\ Constructible(RoleOfCall.fallback) = {}
        /\ last_call.error = NoAvailableModel =>
              /\ last_call.attempts = <<RoleOfCall.primary>> \o RoleOfCall.fallback
              /\ last_call.tried = [i \in 1..Len(last_call.attempts) |-> last_call.attempts[i].model]

(***************************************************************************)
(* C18: for a role name the configuration does not define, resolution      *)
(* fails with the unknown-role error (KeyError) before any client          *)
(* construction or credential lookup, and that error is raised for no      *)
(* other reason, so it cannot be taken for the no-available-model error.   *)
(***************************************************************************)
C18_UnknownRoleFailsFirst ==
    ( /\ last_call.op \in {"get_role_config", "create_llm_for_role",
                           "create_fallback_llm_for_role"}
      /\ last_call.config # <<>> )
    => /\ last_call.role \notin DOMAIN last_call.config[1].roles =>
             /\ last_call.outcome = "error"
             /\ last_call.error = "KeyError"
             /\ last_call.attempts = <<>>
             /\ last_call.client = <<>>
       /\ last_call.error = "KeyError" => last_call.role \notin DOMAIN last_call.config[1].roles

C18_Witness ==
    /\ last_call.op = "create_llm_for_role"
    /\ last_call.role = "moderator"
    /\ last_call.config = <<ConfigB>>
    /\ environ = EnvNames
    /\ last_call.error = "KeyError"

(***************************************************************************)
(* C19: create_fallback_llm_for_role returns a client for the first        *)
(* fallback entry, in declared order, whose construction succeeds, returns *)
(* None when there is no such entry, and never attempts the primary.       *)
(***************************************************************************)
C19_FirstFallbackOrNone ==
    ResolvedRole("create_fallback_llm_for_role") =>
        /\ IF Constructible(RoleOfCall.fallback) = {}
           THEN last_call.outcome = "none"
           ELSE BoundTo(RoleOfCall.fallback[Least(Constructible(RoleOfCall.fallback))])
        /\ Len(last_call.attempts) <= Len(RoleOfCall.fallback)
        /\ last_call.attempts = SubSeq(RoleOfCall.fallback, 1, Len(last_call.attempts))

C21_FailedReloadKeepsCache ==
    [][(last_call'.op = "reload_config" /\ last_call'.outcome = "error") =>
          config_data' = config_data]_vars

(***************************************************************************)
(* C22: the response of generate tells a normal completion from a          *)
(* length-truncated one through stop_reason: two completions that ended    *)
(* differently never carry the same stop_reason.                           *)
(***************************************************************************)
C22_StopReasonDistinguishes ==
    \A a, b \in llm.completions :
        a.finish_reason # b.finish_reason => a.stop_reason # b.stop_reason

(***************************************************************************)
(* Vocabulary of the extractor's properties.                               *)
(***************************************************************************)
Extracted(kind) == extraction.pc = "extracted" /\ extraction.answer.kind = kind
\* the truncated serialization the answer ends with
Written(answer) ==
    SubSeq(answer.text, Len(answer.text) - answer.cut + 1, Len(answer.text))
\* where a member's value starts: a complete scalar or a container's opening
ValueStarts(toks) ==
    {i \in 1..Len(toks) :
        /\ Scan(Prefix(toks, i - 1)).expect \in {"value", "value_or_close"}
        /\ toks[i] \in Scalars \cup Openers}
\* record keeps the serialization up to its last value and only closes after it
KeepsUpToLastValue(record, toks) ==
    LET m == Final(ValueStarts(toks)) IN
    /\ Len(record) >= m
    /\ Prefix(record, m) = Prefix(toks, m)
    /\ \A j \in (m + 1)..Len(record) : record[j] \in {"}", "]"}
NoDelimiter(text) == Positions(text, {"{", "}", "[", "]"}) = {}

(***************************************************************************)
(* C23: for a well-formed record, with or without whitespace around it,    *)
(* repair_json returns exactly the record direct parsing gives.            *)
(***************************************************************************)
C23_WellFormedUnaltered ==
    Extracted("wellformed") =>
        /\ extraction.result.outcome = "record"
        /\ extraction.result.record = extraction.answer.doc

C23_Witness ==
    /\ Extracted("wellformed")
    /\ Len(extraction.answer.text) > Len(extraction.answer.doc)
    /\ extraction.answer.doc[1] = "["
    /\ extraction.result.record = extraction.answer.doc

C25_NoRecordRaises ==
    (/\ extraction.pc = "extracted"
     /\ \/ DropBlanks(extraction.answer.text) = <<>>
        \/ NoDelimiter(extraction.answer.text)
        \/ extraction.answer.kind = "unrooted") =>
        /\ extraction.result.outcome = "error"
        /\ extraction.result.record = <<>>

C25_Witness ==
    /\ Extracted("unrooted")
    /\ extraction.answer.text = <<"{", "}", "}">>
    /\ extraction.result.outcome = "error"

(***************************************************************************)
(* C26: generate_review accepts a reviewer's text exactly when the         *)
(* extractor recovers a record from it, and then it accepts that record.   *)
(***************************************************************************)
C26_ReviewThroughExtractor ==
    extraction.pc = "parsed" =>
        LET recovered == RepairJson(extraction.answer.text) IN
        /\ extraction.outcome = "review_data" <=> recovered.outcome = "record"
        /\ extraction.outcome = "review_data" => extraction.review_data = <<recovered.record>>

(***************************************************************************)
(* C27: every review accepted into a round scores every criterion with an  *)
(* integer in 1..10, and all reviews of a round score the same criteria.   *)
(***************************************************************************)
ScoresValid(review) ==
    /\ DOMAIN review.scores = {Criteria[i] : i \in 1..Len(Criteria)}
    /\ \A c \in DOMAIN review.scores : review.scores[c] \in 1..10

C27_AcceptedScoresValid ==
    /\ \A i \in 1..Len(reviews) : ScoresValid(reviews[i])
    /\ \A r \in 1..Len(all_rounds) :
          \A i \in 1..Len(all_rounds[r].reviews) : ScoresValid(all_rounds[r].reviews[i])

(***************************************************************************)
(* C28: a review's average is the mean of its criterion scores rounded to  *)
(* one decimal; the round's aggregate, on which the pass decision is       *)
(* taken, is the mean of these rounded averages over the N reviews of the  *)
(* panel (as a double: the exact mean up to the rounding of the float      *)
(* sum and division).                                                      *)
(***************************************************************************)
Distance(a, b) == IF a >= b THEN a - b ELSE b - a

\* avg is the double of the tenth nearest to the mean of the scores
MeanToOneDecimal(review) ==
    LET total == SumSeq(review.scores, Criteria)
        n     == Len(Criteria)
    IN  /\ review.average = Dbl[review.average.n, 10]
        /\ 2 * Distance(10 * total, n * review.average.n) <= n

\* v is a double within two units in the last place of the mean of the averages
MeanOfAverages(v, rs) ==
    LET m == ExactMean(rs) IN
    /\ v.n * m.d = m.n * v.d
    /\ Distance(v.r, 0) <= 2 * v.d * Pow2[Binade[v.n, v.d, 0]]

C28_AveragesAreMeans ==
    /\ \A i \in 1..Len(reviews) : MeanToOneDecimal(reviews[i])
    /\ overall_average # <<>> =>
          /\ Len(reviews) = Len(SpecialistOrder)
          /\ MeanOfAverages(overall_average[1], reviews)
    /\ pc = "branch" =>
          all_rounds[Len(all_rounds)].passed = DblGE[overall_average[1], threshold]

C28_Witness ==
    /\ pc = "branch"
    /\ overall_average # <<>>
    /\ \E i, j \in 1..Len(reviews) : reviews[i].average # reviews[j].average
    /\ overall_average[1].r # 0

(***************************************************************************)
(* C29: phases never overlap.  Reviewer calls are in flight only while the *)
(* panel runs; from the panel's dispatch to the end of the round the       *)
(* manuscript is the one saved as this round's version (the initial draft, *)
(* or the text the previous revision returned); the revision starts only   *)
(* when all N reviews are in and the round's record is written.            *)
(***************************************************************************)
InRound == pc \in {"panel", "seal", "branch", "revising"}

C29_PhasesNeverOverlap ==
    /\ pending \cup hung # {} => pc = "panel"
    /\ InRound =>
          /\ <<"manuscript_v", round_num>> \in DOMAIN files
          /\ current_manuscript = files[<<"manuscript_v", round_num>>]
          /\ Len(all_rounds) = IF pc \in {"panel", "seal"} THEN round_num - 1 ELSE round_num
    /\ pc = "revising" =>
          /\ pending = {} /\ hung = {}
          /\ {reviews[i].specialist : i \in 1..Len(reviews)} = Specialists
          /\ Len(reviews) = Len(SpecialistOrder)
          /\ <<"round", round_num>> \in DOMAIN files
          /\ files[<<"round", round_num>>].reviews = reviews
          /\ writer_prompt[1].manuscript = current_manuscript

C29_Witness ==
    /\ pc = "panel"
    /\ round_num = 2
    /\ Len(reviews) = 2
    /\ current_manuscript = "revision A"

(***************************************************************************)
(* C30: revise is invoked exactly when the round's aggregate is below the  *)
(* threshold and the round number is below max_rounds; a run that finished *)
(* made one revision less than it sealed rounds, none after the final      *)
(* round, and its final manuscript is the text the last round scored.      *)
(***************************************************************************)
\* the versions saved by revisions
RevisedVersions == {k \in 2..(MaxRoundsBound + 2) : <<"manuscript_v", k>> \in DOMAIN files}
FinalFiles == {<<"manuscript_final", 0>>} \cup
              {<<"manuscript_final_v", k>> : k \in 0..(MaxRoundsBound + 1)}

C30_ReviseExactlyWhenNeeded ==
    /\ pc = "revising" =>
          /\ ~DblGE[overall_average[1], threshold]
          /\ round_num < max_rounds
          /\ RevisedVersions = 2..round_num
    /\ (pc \in {"summary", "cost", "done"} /\ all_rounds # <<>>) =>
          \/ DblGE[overall_average[1], threshold]
          \/ round_num >= max_rounds
    /\ pc = "done" =>
          /\ Cardinality(RevisedVersions) = Len(all_rounds) - 1
          /\ RevisedVersions = 2..Len(all_rounds)
          /\ all_rounds[Len(all_rounds)].manuscript_version = Len(all_rounds)
          /\ current_manuscript = files[<<"manuscript_v", Len(all_rounds)>>]
          /\ \E f \in FinalFiles \cap DOMAIN files : files[f] = current_manuscript
          /\ \A f \in FinalFiles \cap DOMAIN files : files[f] = current_manuscript

C30_Witness ==
    /\ pc = "done"
    /\ Len(all_rounds) = 2
    /\ current_manuscript = "revision B"
    /\ status = "MAX_ROUNDS_REACHED"

RaisesValueError(spec) ==
    LET res == CreateLLM(last_call.config[1], environ, spec)
    IN  ~res.ok /\ res.error = "ValueError"

C32_TotalOrAbsent ==
    llm.pc \in {"built", "returned"} =>
        IF llm.response.input_tokens # <<>> /\ llm.response.output_tokens # <<>>
        THEN llm.total_tokens = <<llm.response.input_tokens[1] + llm.response.output_tokens[1]>>
        ELSE llm.total_tokens = <<>>

C32_Witness ==
    /\ llm.pc = "built"
    /\ llm.response.input_tokens = <<100>>
    /\ llm.response.output_tokens = <<>>
    /\ llm.total_tokens = <<>>

(***************************************************************************)
(* C33: in every round record the pass flag agrees with the recorded       *)
(* numbers: passed holds exactly when the stored overall_average (rounded  *)
(* to one decimal) is at least the stored threshold; the final record of   *)
(* the run carries the flag of the last round.                             *)
(***************************************************************************)
C33_FlagAgreesWithRecord ==
    /\ \A r \in 1..Len(all_rounds) :
          all_rounds[r].passed <=> DblGE[all_rounds[r].overall_average, all_rounds[r].threshold]
    /\ <<"workflow_complete", 0>> \in DOMAIN files =>
          files[<<"workflow_complete", 0>>].passed = all_rounds[Len(all_rounds)].passed

(***************************************************************************)
(* C34: for every integer max_rounds, zero and negative values included,   *)
(* the run records at least one round before it finalizes and writes the   *)
(* complete workflow record without raising.                               *)
(***************************************************************************)
C34_AtLeastOneRound ==
    /\ pc \in {"summary", "cost", "done"} => Len(all_rounds) >= 1
    /\ error # "IndexError"

(***************************************************************************)
(* C35: absent token counts are tolerated end to end: a run in which a     *)
(* reviewer call reported no counts still finishes with success, the       *)
(* token summary counting the missing value as zero.                       *)
(***************************************************************************)
C35_AbsentTokensTolerated ==
    (~TokensCounted(all_rounds) /\ <<"workflow_complete", 0>> \in DOMAIN files) =>
        /\ pc \in {"cost", "done"}
        /\ error = ""


\* C36: whenever a call has resolved a key for an openai entry, the base URL is the
\* Anthropic one exactly when the key is the Anthropic fallback key; a key from
\* the provider's own primary or alternate variable never gets the Anthropic URL.
C36_ConsistentPair ==
    (last_call.op # "none" /\ last_call.config # <<>> /\ \E i \in DOMAIN last_call.attempts :
            last_call.attempts[i].provider = "openai") =>
        LET cfg  == last_call.config[1]
            base == EnvGet(environ, ProviderCfg(cfg, "anthropic").env_base_url)
        IN  GetApiKey(cfg, environ, "openai") # "" =>
              /\ (GetBaseUrl(cfg, environ, "openai") = base /\ base # "")
                     <=> OwnKey(cfg, environ, "openai") = ""
              /\ OwnKey(cfg, environ, "openai") # "" =>
                     GetBaseUrl(cfg, environ, "openai") # "ANTHROPIC_BASE_URL"


\* the round numbers of the sealed rounds, in list order
SealedNumbers == [i \in DOMAIN tracker.rounds |-> tracker.objects[tracker.rounds[i]].round_number]

\* C37: once end_round has been called as many times as start_round (no end_round
\* ahead of its start_round), the rounds list holds one RoundMetrics per start_round
\* call, in start order, and no round timer is left in the timer table.
C37_NoRoundDropped ==
    (~history.unmatched /\ history.ends = Len(history.starts)) =>
        /\ SealedNumbers = history.starts
        /\ \A n \in RoundNumbers : RoundTimer(n) \notin tracker.timers

\* a call of one of the round-scoped methods
RoundScopedCall ==
    \/ \E reviewer_id \in ReviewerIds, duration \in Durations :
          RecordReviewerTime(reviewer_id, duration)
    \/ \E duration \in Durations : RecordModeratorTime(duration)
    \/ \E duration \in Durations : RecordRevisionTime(duration)
    \/ \E tokens \in TokenAmounts : RecordRoundTokens(tokens)
    \/ EndRound

\* C38: with no round open, record_reviewer_time, record_moderator_time,
\* record_revision_time, record_round_tokens and end_round leave the tracker and every
\* exported value as they were; and no step changes a sealed RoundMetrics.
C38_NoOpenRoundNoEffect ==
    [][ /\ (tracker.current_round = <<>> /\ RoundScopedCall) =>
              (tracker' = tracker /\ exported' = exported)
        /\ \A i \in DOMAIN tracker.rounds :
              tracker'.objects[tracker.rounds[i]] = tracker.objects[tracker.rounds[i]] ]_vars
\* a revision time was recorded after the only round was ended, and the sealed
\* round carries none
C38_Witness ==
    /\ history.last = "record_revision_time"
    /\ tracker.current_round = <<>>
    /\ Len(tracker.rounds) = 1
    /\ tracker.objects[tracker.rounds[1]].revision_time = <<>>

\* C39: an exported value is a snapshot: no step changes the rounds it lists, and its
\* total_tokens is the initial-draft tokens plus the team-composition tokens plus the
\* round_tokens of the rounds it lists.
C39_ExportIsSnapshot ==
    /\ [][\A i \in DOMAIN exported : RoundsOf(exported[i])' = RoundsOf(exported[i])]_vars
    /\ [](\A i \in DOMAIN exported :
            exported[i].total_tokens =
                exported[i].initial_draft_tokens + exported[i].team_composition_tokens
                + SumOfRoundTokens(RoundsOf(exported[i])))

====
